---- MODULE Spec2Model ----
(***************************************************************************)
(* A model of toru: the metainfo decoder (src/torrent/mod.rs), the piece   *)
(* verification and the seeding of the importer                            *)
(* (src/subcommands/import.rs), the move subcommand                        *)
(* (src/subcommands/move.rs) and the client adapter (src/sycli/mod.rs).    *)
(*                                                                         *)
(* Three specifications share the module, one per subsystem:               *)
(*   SpecDecode  deserialize_info applied to a raw info dictionary         *)
(*   SpecImport  process_torrent: decode, pick a mapping, hash-check       *)
(*   Spec        MoveArgs::exec: collect, then the strategy's steps        *)
(*   SpecSeed    process_torrent from the hash check on, with cross_seed   *)
(* and one specification per pure function (SpecFilter, SpecBasePath,      *)
(* SpecGetTorrents, SpecSuffix, SpecBest): its inputs, then its result.    *)
(* The variables of the other subsystems stay at their idle values.        *)
(***************************************************************************)
EXTENDS Integers, Sequences, FiniteSets, TLC

VARIABLES
    \* ---- decoder
    raw,          \* the RawInfo read from the bencoded dictionary
    dpc,          \* "input" before deserialize_info ran, "done" after
    decoded,      \* the Result of deserialize_info
    \* ---- importer
    ipc,          \* position inside process_torrent
    meta,         \* the raw info of the .torrent being imported
    content,      \* the bytes the torrent was made from, per file (ground truth)
    entries,      \* the size index: file size -> source files of that size
    disk,         \* the bytes of each source file at hash-check time
    unreadable,   \* the source files File::open fails on
    flags,        \* dry_run, skip_add, pieces_to_test
    info,         \* the decoded Info
    mapping,      \* metainfo path -> chosen source file
    checked,      \* the pieces handed to the hash check
    failed_paths, \* the failed-path set
    \* ---- move
    pc,           \* position inside MoveArgs::exec
    args,         \* source, target, strategy
    world,        \* what the filesystem and the client hold when exec starts
    torrents,     \* the torrents filter_torrents selected
    ip,           \* index of the running step of the strategy
    ti,           \* index of the next torrent inside a per-torrent step
    src_present,  \* the source still exists on disk
    dst_state,    \* "absent", "partial" or "present": target/source.file_name
    paused,       \* the ids the client holds paused
    client_base,  \* the base paths set through move_torrent
    log,          \* the side effects issued so far, in order
    error,        \* "none", or why exec stopped
    \* ---- cross_seed
    src_paths,    \* the path of every source file
    announce,     \* the host of the announce URL, if it has one
    run,          \* 1 in the first import of the torrent, 2 in the second
    steps,        \* the operations cross_seed is going to issue, in order
    si,           \* index of the next of them
    effects,      \* the operations issued in this run, with their results
    mirror,       \* the directories and symlinks on disk
    mirror1,      \* ... as the first run left them
    \* ---- ImportArgs::exec
    batch,        \* the .torrent files of the argument list, in order
    bi,           \* index of the torrent being processed, 0 before the first
    results,      \* how process_torrent returned for the torrents before it
    \* ---- a function called on its own
    fpc,          \* "call" before the function ran, "ret" after
    call,         \* its arguments
    ret           \* its result

dvars == <<raw, dpc, decoded>>
ivars == <<ipc, meta, content, entries, disk, unreadable, flags, info, mapping, checked, failed_paths>>
mvars == <<pc, args, world, torrents, ip, ti, src_present, dst_state, paused, client_base, log, error>>
svars == <<src_paths, announce, run, steps, si, effects, mirror, mirror1>>
pvars == <<fpc, call, ret>>
bvars == <<batch, bi, results>>
xvars == <<svars, pvars, bvars>>
vars == <<dvars, ivars, mvars, xvars>>

\* ------------------------------------------------------------------------
\* Bounds of the model.
MaxFiles == 3
MaxFileLen == 3
MaxPieceLen == 3
MaxHashes == 4
\* ... of the importer's inputs
IMaxFiles == 2
IMaxFileLen == 2
IMaxPieceLen == 2
IMaxHashes == 3
MaxPiecesToTest == 2
\* ... of the client's torrent list
MaxTorrents == 2
\* ... of the client's file list
MaxRawFiles == 2
\* ... of the paths handed to remove_common_suffix
MaxComponents == 3
\* ... of the candidates of one torrent file
MaxCandidates == 2
\* ... of the files of a torrent that is seeded
SMaxFiles == 2
\* ... of the .torrent files of one import
MaxBatch == 2

None == "None"

\* Option<T>
Nothing == [some |-> FALSE]
Some(x) == [some |-> TRUE, v |-> x]

Min(a, b) == IF a <= b THEN a ELSE b

RECURSIVE SumSeq(_)
SumSeq(s) == IF s = <<>> THEN 0 ELSE Head(s) + SumSeq(Tail(s))

SeqsUpTo(S, n) == UNION {[1..k -> S] : k \in 0..n}

\* ------------------------------------------------------------------------
\* Metainfo decoder: src/torrent/mod.rs

Err(msg) == [ok |-> FALSE, err |-> msg]

\* sha1_smol::DIGEST_LENGTH
DIGEST_LENGTH == 20

\* deserialize_pieces.  The byte string is held as its complete 20-byte
\* chunks followed by `tail` leftover bytes (0 <= tail < DIGEST_LENGTH):
\* chunks(20) yields the complete chunks and then, if tail > 0, a short
\* chunk on which try_from fails.
deserialize_pieces(blob) ==
    IF blob.tail > 0 THEN Err("could not convert slice to array")
    ELSE IF blob.chunks = <<>> THEN Err("expected non-empty pieces")
    ELSE [ok |-> TRUE, hashes |-> blob.chunks]

\* The match on (raw_info.files, raw_info.length): files of a multi-file
\* torrent get the torrent name as first path component, a single-file
\* torrent is one file named after the torrent.
\* A path is held as a sequence of components.
InfoFiles(r) ==
    CASE r.files.some /\ ~r.length.some ->
            [ok |-> TRUE, is_single_file |-> FALSE,
             files |-> [i \in 1..Len(r.files.v) |->
                         [length |-> r.files.v[i].length,
                          path |-> <<r.name>> \o r.files.v[i].path]]]
      [] ~r.files.some /\ r.length.some ->
            [ok |-> TRUE, is_single_file |-> TRUE,
             files |-> <<[length |-> r.length.v, path |-> <<r.name>>]>>]
      [] OTHER -> Err("torrent must set exactly one of length or files")

\* file_iter.peek().map_or(0, |file| file.length)
PeekLength(files, fi) == IF fi <= Len(files) THEN files[fi].length ELSE 0

\* The slice pushed by one turn of the while loop.
NewSlice(current_file, file_remaining, next) ==
    [path |-> current_file.path,
     offset |-> current_file.length - file_remaining,
     length |-> next]

\* The while loop that fills one piece.  st is the state the closure
\* captures: fi (the position of file_iter), file_remaining, remaining.
RECURSIVE FillPiece(_, _, _, _)
FillPiece(files, st, piece_remaining, file_slices) ==
    IF piece_remaining <= 0
    THEN [ok |-> TRUE, st |-> st, file_slices |-> file_slices]
    ELSE IF st.fi > Len(files)
    THEN Err("remaining hashes but all files consumed")
    ELSE LET current_file == files[st.fi]
             next == Min(st.file_remaining, piece_remaining)
             slice == NewSlice(current_file, st.file_remaining, next)
             st2 == IF next >= st.file_remaining
                    THEN [fi |-> st.fi + 1,
                          file_remaining |-> PeekLength(files, st.fi + 1),
                          remaining |-> st.remaining - next]
                    ELSE [fi |-> st.fi,
                          file_remaining |-> st.file_remaining - next,
                          remaining |-> st.remaining - next]
         IN  FillPiece(files, st2, piece_remaining - next, Append(file_slices, slice))

\* The closure body is entered for a hash only while bytes remain.
HashBeyondBytes(st) == st.remaining = 0

\* The map over the hashes, collected into a Result.
RECURSIVE WalkHashes(_, _, _, _, _)
WalkHashes(files, piece_length, hashes, st, pieces) ==
    IF hashes = <<>> THEN [ok |-> TRUE, pieces |-> pieces]
    ELSE IF HashBeyondBytes(st)
    THEN Err("remaining hashes but all bytes consumed")
    ELSE LET filled == FillPiece(files, st, Min(st.remaining, piece_length), <<>>)
         IN  IF ~filled.ok THEN filled
             ELSE WalkHashes(files, piece_length, Tail(hashes), filled.st,
                             Append(pieces, [hash |-> Head(hashes),
                                             file_slices |-> filled.file_slices]))

deserialize_info(r) ==
    LET hs == deserialize_pieces(r.pieces)
        fs == InfoFiles(r)
    IN  IF ~hs.ok THEN hs
        ELSE IF ~fs.ok THEN fs
        ELSE IF fs.files = <<>> THEN Err("torrent with empty files in info")
        ELSE LET st0 == [fi |-> 1,
                         file_remaining |-> fs.files[1].length,
                         remaining |-> SumSeq([i \in 1..Len(fs.files) |-> fs.files[i].length])]
                 walk == WalkHashes(fs.files, r.piece_length, hs.hashes, st0, <<>>)
             IN  IF ~walk.ok THEN walk
                 ELSE [ok |-> TRUE,
                       info |-> [files |-> fs.files,
                                 is_single_file |-> fs.is_single_file,
                                 name |-> r.name,
                                 piece_length |-> r.piece_length,
                                 pieces |-> walk.pieces]]


\* ------------------------------------------------------------------------
\* The decoder applied to every raw info dictionary within the bounds.

FileNames == <<"f1", "f2", "f3", "f4", "f5">>
TorrentName == "t"

\* The `files` lists of a raw info with k entries, the i-th with its own
\* one-component path.
RawFilesOfLen(k) ==
    {[i \in 1..k |-> [length |-> ls[i], path |-> <<FileNames[i]>>]] :
        ls \in [1..k -> 0..MaxFileLen]}

RawFileLists == UNION {RawFilesOfLen(k) : k \in 0..MaxFiles}

\* The `pieces` byte strings: n whole digests (the i-th digest is i), then
\* 0 or 1 leftover byte.
RawPieces ==
    {[chunks |-> [i \in 1..n |-> i], tail |-> t] : n \in 0..MaxHashes, t \in {0, 1}}

RawInfos ==
    [name : {TorrentName},
     files : {Nothing} \cup {Some(fl) : fl \in RawFileLists},
     length : {Nothing} \cup {Some(n) : n \in 0..MaxFileLen},
     piece_length : 0..MaxPieceLen,
     pieces : RawPieces]

NotDecoded == Err("not decoded")

IdleDecode ==
    /\ raw = None
    /\ dpc = "idle"
    /\ decoded = NotDecoded

IdleImport ==
    /\ ipc = "idle"
    /\ meta = None
    /\ content = <<>>
    /\ entries = <<>>
    /\ disk = <<>>
    /\ unreadable = {}
    /\ flags = None
    /\ info = None
    /\ mapping = <<>>
    /\ checked = {}
    /\ failed_paths = {}

IdleMove ==
    /\ pc = "idle"
    /\ args = None
    /\ world = None
    /\ torrents = <<>>
    /\ ip = 0
    /\ ti = 0
    /\ src_present = FALSE
    /\ dst_state = "absent"
    /\ paused = {}
    /\ client_base = <<>>
    /\ log = <<>>
    /\ error = "none"

IdleSeed ==
    /\ src_paths = <<>>
    /\ announce = Nothing
    /\ run = 0
    /\ steps = <<>>
    /\ si = 0
    /\ effects = <<>>
    /\ mirror = None
    /\ mirror1 = None

IdlePure ==
    /\ fpc = "idle"
    /\ call = None
    /\ ret = None

IdleBatch ==
    /\ batch = <<>>
    /\ bi = 0
    /\ results = <<>>

InitDecode ==
    /\ raw \in RawInfos
    /\ dpc = "input"
    /\ decoded = NotDecoded
    /\ IdleImport
    /\ IdleMove
    /\ IdleSeed
    /\ IdlePure
    /\ IdleBatch

\* serde calls deserialize_info on the info dictionary of the torrent.
Decode ==
    /\ dpc = "input"
    /\ decoded' = deserialize_info(raw)
    /\ dpc' = "done"
    /\ UNCHANGED <<raw, ivars, mvars, xvars>>

NextDecode == Decode

SpecDecode == InitDecode /\ [][NextDecode]_vars

\* ---- what the claims about the decoder speak of

Accepted == dpc = "done" /\ decoded.ok

\* S: the declared file sizes summed.
DeclaredTotal(inf) == SumSeq([i \in 1..Len(inf.files) |-> inf.files[i].length])

PieceBytes(piece) ==
    SumSeq([k \in 1..Len(piece.file_slices) |-> piece.file_slices[k].length])

LayoutBytes(inf) == SumSeq([j \in 1..Len(inf.pieces) |-> PieceBytes(inf.pieces[j])])

\* The position in the declared file list of the file a slice refers to
\* (declared paths are distinct).
FileIndexOf(inf, path) == CHOOSE i \in 1..Len(inf.files) : inf.files[i].path = path

\* The raw info names files and hashes the decoder can walk at all.
Walkable ==
    /\ dpc = "done"
    /\ deserialize_pieces(raw.pieces).ok
    /\ InfoFiles(raw).ok
    /\ InfoFiles(raw).files # <<>>

RawTotal == SumSeq([i \in 1..Len(InfoFiles(raw).files) |-> InfoFiles(raw).files[i].length])
RawHashCount == Len(raw.pieces.chunks)

\* Hashes remain after the files are exhausted: the hashes before the last
\* one already cover every byte.
TooManyHashes == (RawHashCount - 1) * raw.piece_length >= RawTotal
\* Bytes remain after the last hash has been consumed.
TooFewHashes == RawHashCount * raw.piece_length < RawTotal

\* C2: for every accepted metainfo, the slice lengths of all pieces sum to
\* the declared total S, and every piece but the last holds exactly
\* piece_length bytes.  Stated for positive piece lengths, which is where the
\* metainfo format puts every torrent.
C2_LayoutCoversDeclaredBytes ==
    (Accepted /\ raw.piece_length > 0) =>
        /\ LayoutBytes(decoded.info) = DeclaredTotal(decoded.info)
        /\ \A j \in 1..(Len(decoded.info.pieces) - 1) :
              PieceBytes(decoded.info.pieces[j]) = decoded.info.piece_length

\* C3: decoding fails when there are more hashes than the bytes need and
\* when there are fewer.  Stated for positive piece lengths.
C3_HashCountMismatchFails ==
    (Walkable /\ raw.piece_length > 0 /\ (TooManyHashes \/ TooFewHashes)) => ~decoded.ok

\* The half of C3 the walk does enforce: surplus hashes are an error.
SurplusHashesFail == (Walkable /\ TooManyHashes) => ~decoded.ok

\* C4: no slice of a decoded Info is empty, and the slices of a piece follow
\* the declared order of their files.
C4_SlicesNonEmptyInFileOrder ==
    Accepted =>
        \A j \in 1..Len(decoded.info.pieces) :
            LET sl == decoded.info.pieces[j].file_slices
            IN  /\ \A k \in 1..Len(sl) : sl[k].length > 0
                /\ \A k \in 1..(Len(sl) - 1) :
                      FileIndexOf(decoded.info, sl[k].path)
                        < FileIndexOf(decoded.info, sl[k + 1].path)

\* The order half of C4 alone.
SlicesInFileOrder ==
    Accepted =>
        \A j \in 1..Len(decoded.info.pieces) :
            LET sl == decoded.info.pieces[j].file_slices
            IN  \A k \in 1..(Len(sl) - 1) :
                    FileIndexOf(decoded.info, sl[k].path)
                      < FileIndexOf(decoded.info, sl[k + 1].path)

\* ------------------------------------------------------------------------
\* Importer: src/subcommands/import.rs, process_torrent up to the hash check

Bytes == {0, 1}

\* SHA-1 taken as collision-free: a digest determines the bytes hashed.
Sha1(bytes) == [sha1 |-> bytes]

RECURSIVE Concat(_)
Concat(ss) == IF ss = <<>> THEN <<>> ELSE Head(ss) \o Concat(Tail(ss))

\* The j-th piece of the bytes the torrent was made from.
ContentPiece(cont, p, j) ==
    LET stream == Concat(cont)
    IN  SubSeq(stream, (j - 1) * p + 1, Min(j * p, Len(stream)))

\* The .torrent made from `cont` with piece length p whose `pieces` holds n
\* digests.
MetaOf(cont, single, p, n) ==
    [name |-> TorrentName,
     files |-> IF single THEN Nothing
               ELSE Some([i \in 1..Len(cont) |->
                            [length |-> Len(cont[i]), path |-> <<FileNames[i]>>]]),
     length |-> IF single THEN Some(Len(cont[1])) ELSE Nothing,
     piece_length |-> p,
     pieces |-> [chunks |-> [j \in 1..n |-> Sha1(ContentPiece(cont, p, j))],
                 tail |-> 0]]

ByteSeqs == UNION {[1..l -> Bytes] : l \in 0..IMaxFileLen}

Flip(b) == 1 - b

\* What a source file that had the bytes `orig` when it was enumerated can
\* hold when it is hashed: the same bytes, one byte changed, or one byte less.
SourceVariants(orig) ==
    {orig}
    \cup {[orig EXCEPT ![k] = Flip(orig[k])] : k \in 1..Len(orig)}
    \cup (IF Len(orig) > 0 THEN {SubSeq(orig, 1, Len(orig) - 1)} ELSE {})

\* enumerate_files_with_sizes: the sources found, indexed by the size
\* metadata() reported.  Source i was found with the size of torrent file i.
enumerate_files_with_sizes(found, cont) ==
    [size \in 0..IMaxFileLen |-> {i \in found : Len(cont[i]) = size}]

FullCheck(f) == ~(f.dry_run \/ f.skip_add)

InitImport ==
    /\ ipc = "start"
    /\ \E k \in 1..IMaxFiles :
         /\ content \in [1..k -> ByteSeqs]
         /\ \E single \in {b \in BOOLEAN : b => k = 1},
               p \in 1..IMaxPieceLen, n \in 1..IMaxHashes :
              meta = MetaOf(content, single, p, n)
         /\ \E found \in {1..k, 1..(k - 1)} :
              entries = enumerate_files_with_sizes(found, content)
         /\ disk \in [1..k -> ByteSeqs]
         /\ \A i \in 1..k : disk[i] \in SourceVariants(content[i])
         /\ unreadable \in {{}, {k}}
    /\ flags \in [dry_run : BOOLEAN, skip_add : BOOLEAN, pieces_to_test : 1..MaxPiecesToTest]
    /\ info = None
    /\ mapping = <<>>
    /\ checked = {}
    /\ failed_paths = {}
    /\ IdleDecode
    /\ IdleMove
    /\ IdleSeed
    /\ IdlePure
    /\ IdleBatch

\* serde_bencode::from_bytes (line 107)
ReadTorrent ==
    /\ ipc = "start"
    /\ LET d == deserialize_info(meta)
       IN  IF d.ok THEN /\ info' = d.info
                        /\ ipc' = "decoded"
           ELSE /\ ipc' = "error_decode"
                /\ UNCHANGED info
    /\ UNCHANGED <<meta, content, entries, disk, unreadable, flags, mapping, checked,
                   failed_paths, dvars, xvars, mvars>>

Paths(inf) == {inf.files[i].path : i \in 1..Len(inf.files)}

\* The mappings pick_candidates can return: every metainfo path gets one of
\* the sources entries holds for the length of its file.  Which one is
\* get_best_candidate's choice; every choice is admitted here.
pick_candidates(inf, ents) ==
    {m \in [Paths(inf) -> UNION {ents[sz] : sz \in DOMAIN ents}] :
        \A i \in 1..Len(inf.files) : m[inf.files[i].path] \in ents[inf.files[i].length]}

\* lines 110-125: bail when a file has no candidate of its size
PickCandidates ==
    /\ ipc = "decoded"
    /\ IF \E i \in 1..Len(info.files) : entries[info.files[i].length] = {}
       THEN /\ ipc' = "error_no_candidates"
            /\ UNCHANGED mapping
       ELSE /\ mapping' \in pick_candidates(info, entries)
            /\ ipc' = "picked"
    /\ UNCHANGED <<meta, content, entries, disk, unreadable, flags, info, checked,
                   failed_paths, dvars, xvars, mvars>>

\* The pieces (by position) with a slice of `path`.
PiecesTouching(inf, path) ==
    {j \in 1..Len(inf.pieces) :
        \E k \in 1..Len(inf.pieces[j].file_slices) : inf.pieces[j].file_slices[k].path = path}

SlicePaths(inf) == {path \in Paths(inf) : PiecesTouching(inf, path) # {}}

\* A sampling that keeps one piece per path whatever pieces_to_test says.
SampledSets_OnePerPath(inf, f) ==
    {UNION {pick[path] : path \in SlicePaths(inf)} :
        pick \in {c \in [SlicePaths(inf) -> SUBSET (1..Len(inf.pieces))] :
                    \A path \in SlicePaths(inf) :
                        /\ c[path] \subseteq PiecesTouching(inf, path)
                        /\ Cardinality(c[path]) = 1}}

\* lines 126-147: per path, shuffle the pieces touching it and keep the
\* first min(pieces_to_test, len); the union is collected into a set.
SampledSets(inf, f) ==
    {UNION {pick[path] : path \in SlicePaths(inf)} :
        pick \in {c \in [SlicePaths(inf) -> SUBSET (1..Len(inf.pieces))] :
                    \A path \in SlicePaths(inf) :
                        /\ c[path] \subseteq PiecesTouching(inf, path)
                        /\ Cardinality(c[path])
                             = Min(f.pieces_to_test, Cardinality(PiecesTouching(inf, path)))}}

\* lines 126-152
PiecesToCheck(inf, f) ==
    IF FullCheck(f) THEN {1..Len(inf.pieces)} ELSE SampledSets(inf, f)

SelectPieces ==
    /\ ipc = "picked"
    /\ checked' \in PiecesToCheck(info, flags)
    /\ ipc' = "selected"
    /\ UNCHANGED <<meta, content, entries, disk, unreadable, flags, info, mapping,
                   failed_paths, dvars, xvars, mvars>>

\* rustix::io::pread on a regular file: the bytes from offset on, at most
\* `length` of them.
pread(bytes, length, offset) ==
    SubSeq(bytes, offset + 1, Min(offset + length, Len(bytes)))

\* The loop of CheckWithFileMapping::check over the slices from the k-th on,
\* `hashed` being what sha1 was fed so far.
RECURSIVE CheckSlices(_, _, _, _, _, _)
CheckSlices(piece, m, dsk, unread, k, hashed) ==
    IF k > Len(piece.file_slices)
    THEN [ok |-> TRUE, v |-> (Sha1(hashed) = piece.hash)]
    ELSE LET slice == piece.file_slices[k]
         IN  IF slice.path \notin DOMAIN m THEN Err("no mapping")
             ELSE IF m[slice.path] \in unread THEN Err("open failed")
             ELSE LET buffer == pread(dsk[m[slice.path]], slice.length, slice.offset)
                  IN  IF Len(buffer) # slice.length THEN Err("pread failed")
                      ELSE CheckSlices(piece, m, dsk, unread, k + 1, hashed \o buffer)

check(piece, m, dsk, unread) == CheckSlices(piece, m, dsk, unread, 1, <<>>)

\* lines 159-165: the paths of the slices of every piece whose check is
\* Ok(false).
FailedPaths(inf, sel, m, dsk, unread) ==
    UNION {{inf.pieces[j].file_slices[k].path : k \in 1..Len(inf.pieces[j].file_slices)} :
             j \in {j \in sel : ~check(inf.pieces[j], m, dsk, unread).v}}

\* A hash check whose failed paths stop nothing.
Bails_Never(paths) == FALSE

\* if !failed_paths.is_empty() { bail!(..) }, lines 166-170
Bails(paths) == paths # {}

\* lines 153-172: check(..).unwrap() panics on an Err; a non-empty failed
\* set is the "hash check failed" error; otherwise cross_seed is entered.
HashCheck ==
    /\ ipc = "selected"
    /\ IF \E j \in checked : ~check(info.pieces[j], mapping, disk, unreadable).ok
       THEN /\ ipc' = "panic"
            /\ UNCHANGED failed_paths
       ELSE /\ failed_paths' = FailedPaths(info, checked, mapping, disk, unreadable)
            /\ ipc' = IF Bails(failed_paths') THEN "error_hash_check" ELSE "cross_seed"
    /\ UNCHANGED <<meta, content, entries, disk, unreadable, flags, info, mapping,
                   checked, dvars, xvars, mvars>>

NextImport == ReadTorrent \/ PickCandidates \/ SelectPieces \/ HashCheck

SpecImport == InitImport /\ [][NextImport]_vars

\* ---- what the claims about the hash check speak of

HashChecked == ipc \in {"error_hash_check", "cross_seed"}

\* The source file mapped to the i-th torrent file.
MappedSource(i) == mapping[info.files[i].path]

\* b differs from a in exactly one byte.
OneByteChanged(a, b) ==
    /\ Len(a) = Len(b)
    /\ Cardinality({k \in 1..Len(a) : a[k] # b[k]}) = 1

\* Every torrent file is mapped to a source holding the torrent's bytes.
CorrectlyMapped == \A i \in 1..Len(info.files) : disk[MappedSource(i)] = content[i]

\* A correct mapping in which one byte of the mapped source s was changed.
OneByteCorrupted(s) ==
    /\ \E i \in 1..Len(info.files) : MappedSource(i) = s
    /\ \A i \in 1..Len(info.files) :
          IF MappedSource(i) = s
          THEN OneByteChanged(content[i], disk[s])
          ELSE disk[MappedSource(i)] = content[i]

\* C1: a full check of a correctly mapped torrent fails no path, and with
\* one byte of one mapped source changed some piece fails and the path
\* mapped to that source is among the failed paths.
C1_FullCheckDetectsAnyChangedByte ==
    (HashChecked /\ FullCheck(flags)) =>
        /\ CorrectlyMapped => failed_paths = {}
        /\ \A s \in 1..Len(content) :
              OneByteCorrupted(s) =>
                  /\ failed_paths # {}
                  /\ \A i \in 1..Len(info.files) :
                        MappedSource(i) = s => info.files[i].path \in failed_paths

\* The torrent carries as many digests as its bytes need.
AllBytesHashed == Len(meta.pieces.chunks) * meta.piece_length >= Len(Concat(content))

\* C1 for the torrents whose pieces cover every byte.
FullCheckDetectsChangedByteWhenAllHashed ==
    (HashChecked /\ FullCheck(flags) /\ AllBytesHashed) =>
        /\ CorrectlyMapped => failed_paths = {}
        /\ \A s \in 1..Len(content) :
              OneByteCorrupted(s) =>
                  /\ failed_paths # {}
                  /\ \A i \in 1..Len(info.files) :
                        MappedSource(i) = s => info.files[i].path \in failed_paths

\* ------------------------------------------------------------------------
\* Paths (std::path), held as their sequence of components below the root.

starts_with(path, base) ==
    /\ Len(base) <= Len(path)
    /\ SubSeq(path, 1, Len(base)) = base

strip_prefix(path, base) ==
    IF starts_with(path, base)
    THEN [ok |-> TRUE, v |-> SubSeq(path, Len(base) + 1, Len(path))]
    ELSE Err("NotAPrefix")

join(path, rel) == path \o rel

parent(path) ==
    IF path = <<>> THEN Nothing ELSE Some(SubSeq(path, 1, Len(path) - 1))

file_name(path) ==
    IF path = <<>> \/ path[Len(path)] = ".." THEN Nothing ELSE Some(path[Len(path)])

\* ------------------------------------------------------------------------
\* Move: src/subcommands/move.rs

\* The full paths of a client torrent's files.
TorrentPaths(torrent) == {join(torrent.base_path, f) : f \in torrent.files}

\* collect_files: the plain files below `path`; any other non-directory
\* entry is an error, and so is finding no file.  The sizes are left out.
collect_files(path, fs) ==
    LET below == {e \in fs : starts_with(e.path, path)}
    IN  IF \E e \in below : e.kind # "file" THEN Err("NonFilePath")
        ELSE IF below = {} THEN Err("NoFiles")
        ELSE [ok |-> TRUE, v |-> {e.path : e \in below}]

\* The loop of filter_torrents over the torrents from the k-th on.
RECURSIVE FilterLoop(_, _, _, _, _)
FilterLoop(ts, source_files, k, filtered_torrents, included_paths) ==
    IF k > Len(ts)
    THEN [ok |-> TRUE, filtered_torrents |-> filtered_torrents,
          included_paths |-> included_paths]
    ELSE LET torrent == ts[k]
             inside == {f \in torrent.files : join(torrent.base_path, f) \in source_files}
             included == Cardinality(inside)
             not_included == Cardinality(torrent.files \ inside)
             paths == included_paths \cup {join(torrent.base_path, f) : f \in inside}
         IN  IF not_included = Cardinality(torrent.files)
             THEN FilterLoop(ts, source_files, k + 1, filtered_torrents, paths)
             ELSE IF included > 0 /\ not_included > 0
             THEN Err("TorrentIncludesSourceAndNonSourceFiles")
             ELSE FilterLoop(ts, source_files, k + 1, Append(filtered_torrents, torrent), paths)

filter_torrents(ts, source_files) ==
    LET loop == FilterLoop(ts, source_files, 1, <<>>, {})
    IN  IF ~loop.ok THEN loop
        ELSE IF Cardinality(loop.included_paths) = 0 THEN Err("NoMatchingTorrents")
        ELSE IF Cardinality(loop.included_paths) = Cardinality(source_files)
        THEN [ok |-> TRUE, v |-> loop.filtered_torrents]
        ELSE [ok |-> FALSE, err |-> "DidNotMatchAllSourceFiles",
              matched |-> Cardinality(loop.included_paths),
              total |-> Cardinality(source_files)]

\* calculate_new_base_path that strips source itself, not its parent, from
\* the base path of a multi-file torrent.
calculate_new_base_path_StripsSource(source, source_is_file, target, torrent) ==
    IF source_is_file THEN [ok |-> TRUE, v |-> target]
    ELSE IF ~starts_with(torrent.base_path, source) THEN Err("NotAPrefix")
    ELSE IF ~file_name(source).some THEN Err("NoFileName")
    ELSE [ok |-> TRUE,
          v |-> join(join(target, <<file_name(source).v>>),
                     strip_prefix(torrent.base_path, source).v)]

calculate_new_base_path(source, source_is_file, target, torrent) ==
    IF source_is_file THEN [ok |-> TRUE, v |-> target]
    ELSE IF /\ Cardinality(torrent.files) = 1
            /\ \A f \in torrent.files : Len(f) = 1
    THEN LET remainder == strip_prefix(torrent.base_path, source)
         IN  IF ~remainder.ok THEN remainder
             ELSE IF ~file_name(source).some THEN Err("NoFileName")
             ELSE [ok |-> TRUE,
                   v |-> join(join(target, <<file_name(source).v>>), remainder.v)]
    ELSE LET original_base_path == join(torrent.base_path, <<torrent.name>>)
         IN  IF ~parent(source).some THEN Err("NoParent")
             ELSE LET suffix == strip_prefix(original_base_path, parent(source).v)
                  IN  IF ~suffix.ok THEN suffix
                      ELSE IF ~parent(join(target, suffix.v)).some THEN Err("NoParent")
                      ELSE [ok |-> TRUE, v |-> parent(join(target, suffix.v)).v]

\* ---- the inputs of a move

Src == <<"src", "x">>
Root == <<>>

\* The plain files a source directory can hold, and a symlink.
DirEntries ==
    {[path |-> <<"src", "x", "f">>, kind |-> "file"],
     [path |-> <<"src", "x", "d", "a">>, kind |-> "file"],
     [path |-> <<"src", "x", "l">>, kind |-> "symlink"]}

\* The torrents the client can report; each with progress 1.0 (100) or less.
Progresses == {100, 50}

Catalog ==
    {[id |-> "A", name |-> "f", base_path |-> <<"src", "x">>, files |-> {<<"f">>}],
     [id |-> "B", name |-> "d", base_path |-> <<"src", "x">>, files |-> {<<"d", "a">>}],
     [id |-> "C", name |-> "x", base_path |-> <<"src">>,
      files |-> {<<"x", "f">>, <<"x", "d", "a">>}],
     [id |-> "X", name |-> "x", base_path |-> <<"src">>, files |-> {<<"x">>}],
     [id |-> "P", name |-> "src", base_path |-> <<>>,
      files |-> {<<"src", "x", "f">>, <<"src", "x", "d", "a">>}],
     [id |-> "M", name |-> "src", base_path |-> <<>>,
      files |-> {<<"src", "x", "f">>, <<"src", "y">>}],
     [id |-> "O", name |-> "g", base_path |-> <<"other">>, files |-> {<<"g">>}]}

WithProgress(t, pr) ==
    [id |-> t.id, name |-> t.name, base_path |-> t.base_path, progress |-> pr,
     files |-> t.files]

\* get_torrents collects out of a HashMap: any order of the client's torrents.
ClientLists ==
    {ts \in UNION {[1..k -> {WithProgress(t, pr) : t \in Catalog, pr \in Progresses}] :
                     k \in 0..MaxTorrents} :
        \A i, j \in 1..Len(ts) : i # j => ts[i].id # ts[j].id}

Worlds ==
    {w \in [source_kind : {"file", "dir"},
            target_is_dir : BOOLEAN,
            fs : SUBSET DirEntries \cup {{[path |-> Src, kind |-> "file"]}},
            client : ClientLists] :
        (w.source_kind = "file") <=> (w.fs = {[path |-> Src, kind |-> "file"]})}

MoveArgs ==
    [source : {Src, Root},
     target : {<<"tgt">>, Src, <<"src", "x", "sub">>},
     strategy : {"Rename", "CopyAndUnlink"}]

\* What the paths name is consistent: the root is a directory, and nothing
\* at or below a plain file is a directory.
Consistent(a, w) ==
    /\ a.source = Root => w.source_kind = "dir"
    /\ (w.source_kind = "file" /\ starts_with(a.target, Src)) => ~w.target_is_dir

Init ==
    /\ pc = "start"
    /\ args \in MoveArgs
    /\ world \in Worlds
    /\ Consistent(args, world)
    /\ torrents = <<>>
    /\ ip = 0
    /\ ti = 0
    /\ src_present = TRUE
    /\ dst_state = "absent"
    /\ paused = {}
    /\ client_base = [id \in {} |-> <<>>]
    /\ log = <<>>
    /\ error = "none"
    /\ IdleDecode
    /\ IdleImport
    /\ IdleSeed
    /\ IdlePure
    /\ IdleBatch

Fail(why) ==
    /\ pc' = "failed"
    /\ error' = why

\* A side effect issued to the client or the filesystem, with its result.
Event(op, id, a, b, res) == [op |-> op, id |-> id, a |-> a, b |-> b, res |-> res]

\* exec, lines 35-47: the checks and the collection before any step.
Collect ==
    /\ pc = "start"
    /\ \E io \in {"ok", "WalkDir", "sycli"} :
         LET source_files == collect_files(args.source, world.fs)
         IN  IF ~world.target_is_dir THEN Fail("target is not a directory") /\ UNCHANGED torrents
             ELSE IF io = "WalkDir" THEN Fail("WalkDir") /\ UNCHANGED torrents
             ELSE IF ~source_files.ok THEN Fail(source_files.err) /\ UNCHANGED torrents
             ELSE IF io = "sycli" THEN Fail("sycli") /\ UNCHANGED torrents
             ELSE LET selected == filter_torrents(world.client, source_files.v)
                  IN  IF ~selected.ok THEN Fail(selected.err) /\ UNCHANGED torrents
                      ELSE /\ torrents' = selected.v
                           /\ pc' = "selected"
                           /\ UNCHANGED error
    /\ UNCHANGED <<args, world, ip, ti, src_present, dst_state, paused, client_base, log,
                   dvars, xvars, ivars>>

\* The rename steps with the torrents resumed before the client is told of
\* their new place.
RenameSteps_ResumeBeforeMove ==
    <<"pause_torrents", "rename", "resume_torrents", "move_torrents">>

\* move_files_with_rename, lines 222-225: each step ends in `?` but the last.
RenameSteps == <<"pause_torrents", "rename", "move_torrents", "resume_torrents">>

\* The copy steps with the source removed before the client is told of the
\* torrents' new place.
CopySteps_RemoveBeforeMove == <<"copy", "remove_source", "move_torrents">>

\* move_files_with_copy, lines 259-287, the same for a directory and a file.
CopySteps == <<"copy", "move_torrents", "remove_source">>

\* exec, lines 79-88
StrategySteps(strategy) == IF strategy = "Rename" THEN RenameSteps ELSE CopySteps

target_with_file_name == join(args.target, <<file_name(args.source).v>>)

\* The head of move_files_with_rename and of move_files_with_copy: the file
\* name of source, and in the copy the assertion on target.
EnterStrategy ==
    /\ pc = "selected"
    /\ IF ~file_name(args.source).some
       THEN Fail("could not extract file name component") /\ UNCHANGED <<ip, ti>>
       ELSE IF args.strategy = "CopyAndUnlink" /\ starts_with(args.target, args.source)
       THEN /\ pc' = "panic"
            /\ UNCHANGED <<error, ip, ti>>
       ELSE /\ pc' = "running"
            /\ ip' = 1
            /\ ti' = 1
            /\ UNCHANGED error
    /\ UNCHANGED <<args, world, torrents, src_present, dst_state, paused, client_base, log,
                   dvars, xvars, ivars>>

Step == StrategySteps(args.strategy)[ip]

\* After the step at ip: the next step, or Ok(()).
StepDone ==
    /\ ti' = 1
    /\ IF ip = Len(StrategySteps(args.strategy))
       THEN pc' = "done" /\ ip' = ip
       ELSE pc' = "running" /\ ip' = ip + 1
    /\ UNCHANGED error

\* After one turn of a loop over the torrents.
TurnDone ==
    IF ti = Len(torrents) THEN StepDone
    ELSE /\ ti' = ti + 1
         /\ UNCHANGED <<pc, ip, error>>

\* The `?` on the result of an operation.
Failed(res) == res # "ok"

ClientResults == {"ok", "sycli"}

\* pause_torrents, lines 49-55
PauseTorrent ==
    /\ pc = "running" /\ Step = "pause_torrents"
    /\ \E res \in ClientResults :
         /\ log' = Append(log, Event("pause", torrents[ti].id, <<>>, <<>>, res))
         /\ IF Failed(res)
            THEN Fail(res) /\ UNCHANGED <<paused, ip, ti>>
            ELSE paused' = paused \cup {torrents[ti].id} /\ TurnDone
    /\ UNCHANGED <<args, world, torrents, src_present, dst_state, client_base, dvars, xvars, ivars>>

\* rename(2): moving a directory below itself is EINVAL, and a target on
\* another filesystem is EXDEV.
RenameResults ==
    IF starts_with(target_with_file_name, args.source) THEN {"EINVAL"}
    ELSE {"ok", "CrossesDevices", "io"}

\* A rename whose cross-device error is swallowed.
RenameFailed_SwallowsCrossDevice(res) == res \notin {"ok", "CrossesDevices"}

\* The `?` on std::fs::rename.
RenameFailed(res) == Failed(res)

\* std::fs::rename(source, &target_with_file_name)?, line 223
RenameSource ==
    /\ pc = "running" /\ Step = "rename"
    /\ \E res \in RenameResults :
         /\ log' = Append(log, Event("rename", "-", args.source, target_with_file_name, res))
         /\ IF RenameFailed(res)
            THEN Fail(res) /\ UNCHANGED <<src_present, dst_state, ip, ti>>
            ELSE src_present' = FALSE /\ dst_state' = "present" /\ StepDone
    /\ UNCHANGED <<args, world, torrents, paused, client_base, dvars, xvars, ivars>>

\* move_torrents, lines 57-69; source.is_file() is asked when the closure
\* runs, of the disk as it then is.
MoveTorrent ==
    /\ pc = "running" /\ Step = "move_torrents"
    /\ LET source_is_file == world.source_kind = "file" /\ src_present
           new_path == calculate_new_base_path(args.source, source_is_file, args.target,
                                               torrents[ti])
       IN  IF ~new_path.ok
           THEN Fail(new_path.err) /\ UNCHANGED <<log, client_base, ip, ti>>
           ELSE \E res \in ClientResults :
                  /\ log' = Append(log, Event("move_torrent", torrents[ti].id, new_path.v,
                                              <<>>, res))
                  /\ IF Failed(res)
                     THEN Fail(res) /\ UNCHANGED <<client_base, ip, ti>>
                     ELSE /\ client_base' =
                               [id \in DOMAIN client_base \cup {torrents[ti].id} |->
                                   IF id = torrents[ti].id THEN new_path.v ELSE client_base[id]]
                          /\ TurnDone
    /\ UNCHANGED <<args, world, torrents, src_present, dst_state, paused, dvars, xvars, ivars>>

\* resume_torrents, lines 71-77
ResumeTorrent ==
    /\ pc = "running" /\ Step = "resume_torrents"
    /\ \E res \in ClientResults :
         /\ log' = Append(log, Event("resume", torrents[ti].id, <<>>, <<>>, res))
         /\ IF Failed(res)
            THEN Fail(res) /\ UNCHANGED <<paused, ip, ti>>
            ELSE paused' = paused \ {torrents[ti].id} /\ TurnDone
    /\ UNCHANGED <<args, world, torrents, src_present, dst_state, client_base, dvars, xvars, ivars>>

\* fs_extra::dir::copy_with_progress / fs_extra::file::copy_with_progress,
\* lines 259-283; a copy that fails can leave a part of the tree behind.
CopySource ==
    /\ pc = "running" /\ Step = "copy"
    /\ \E res \in {"ok", "io"} :
         /\ log' = Append(log, Event("copy", "-", args.source, target_with_file_name, res))
         /\ IF Failed(res)
            THEN /\ Fail(res)
                 /\ dst_state' \in {"absent", "partial"}
                 /\ UNCHANGED <<ip, ti>>
            ELSE dst_state' = "present" /\ StepDone
    /\ UNCHANGED <<args, world, torrents, src_present, paused, client_base, dvars, xvars, ivars>>

\* std::fs::remove_dir_all(source)? / std::fs::remove_file(source)?
RemoveSource ==
    /\ pc = "running" /\ Step = "remove_source"
    /\ \E res \in {"ok", "io"} :
         /\ log' = Append(log, Event("remove", "-", args.source, <<>>, res))
         /\ IF Failed(res)
            THEN Fail(res) /\ UNCHANGED <<src_present, ip, ti>>
            ELSE src_present' = FALSE /\ StepDone
    /\ UNCHANGED <<args, world, torrents, dst_state, paused, client_base, dvars, xvars, ivars>>

Next ==
    \/ Collect
    \/ EnterStrategy
    \/ PauseTorrent
    \/ RenameSource
    \/ MoveTorrent
    \/ ResumeTorrent
    \/ CopySource
    \/ RemoveSource

Spec == Init /\ [][Next]_vars

\* ------------------------------------------------------------------------
\* Properties of a move

TorrentIds == {torrents[i].id : i \in 1..Len(torrents)}

FsOps == {"rename", "copy", "remove"}

\* Before the k-th effect, op succeeded on every selected torrent.
AllBefore(op, k) ==
    \A id \in TorrentIds :
        \E j \in 1..(k - 1) : log[j].op = op /\ log[j].id = id /\ log[j].res = "ok"

\* Before the k-th effect, the files were moved.
FilesMovedBefore(k) ==
    \E j \in 1..(k - 1) :
        /\ log[j].res = "ok"
        /\ log[j].op = IF args.strategy = "Rename" THEN "rename" ELSE "remove"

PauseBracket ==
    \A k \in 1..Len(log) :
        /\ log[k].op \in FsOps => AllBefore("pause", k)
        /\ log[k].op = "resume" => FilesMovedBefore(k) /\ AllBefore("move_torrent", k)

\* C5: Every selected torrent is paused before the first filesystem mutation
\* of a move, and a torrent is resumed only after all file movement and all
\* move_torrent calls are done, under the rename and the copy strategy alike.
C5_PausedAroundFileMovement == PauseBracket

\* The rename strategy alone keeps the bracket.
RenamePauseBracket == args.strategy = "Rename" => PauseBracket

\* The k-th effect of a successful copy of n torrents.
ExpectedCopy(k, n) ==
    IF k = 1 THEN [op |-> "copy", id |-> "-"]
    ELSE IF k <= n + 1 THEN [op |-> "move_torrent", id |-> torrents[k - 1].id]
    ELSE [op |-> "remove", id |-> "-"]

\* C6: Under the copy strategy the source is copied to the target first, then
\* move_torrent is called for every selected torrent, and only then is the
\* source deleted; when the copy or a move_torrent fails, or a new base path
\* cannot be computed, the source is left undeleted.
C6_CopyThenMoveThenDelete ==
    args.strategy = "CopyAndUnlink" =>
        LET n == Len(torrents)
        IN  /\ Len(log) <= n + 2
            /\ \A k \in 1..Len(log) :
                 /\ log[k].op = ExpectedCopy(k, n).op
                 /\ log[k].id = ExpectedCopy(k, n).id
                 /\ k < Len(log) => log[k].res = "ok"
                 /\ log[k].op = "copy" =>
                      /\ log[k].a = args.source
                      /\ log[k].b = args.target \o <<args.source[Len(args.source)]>>
                 /\ log[k].op = "remove" => log[k].a = args.source
            /\ (\E k \in 1..Len(log) :
                  log[k].op \in {"copy", "move_torrent"} /\ log[k].res # "ok")
               => src_present /\ pc = "failed"
            /\ error \in {"NotAPrefix", "NoParent", "NoFileName"} => src_present
            /\ ~src_present =>
                 /\ Len(log) = n + 2
                 /\ \A k \in 1..Len(log) : log[k].res = "ok"
            /\ pc = "done" => ~src_present /\ dst_state = "present"

C6_Witness ==
    /\ args.strategy = "CopyAndUnlink"
    /\ pc = "done"
    /\ Len(torrents) = 2
    /\ log[Len(log)].op = "remove"
    /\ ~src_present

\* A copy whose second move_torrent failed.
C6_FailureWitness ==
    /\ args.strategy = "CopyAndUnlink"
    /\ pc = "failed"
    /\ Len(log) = 3
    /\ log[3].op = "move_torrent"
    /\ log[3].res # "ok"

\* The k-th effect of a successful rename of n torrents.
ExpectedRename(k, n) ==
    IF k <= n THEN [op |-> "pause", id |-> torrents[k].id]
    ELSE IF k = n + 1 THEN [op |-> "rename", id |-> "-"]
    ELSE IF k <= 2 * n + 1 THEN [op |-> "move_torrent", id |-> torrents[k - n - 1].id]
    ELSE [op |-> "resume", id |-> torrents[k - 2 * n - 1].id]

RenameOrder ==
    args.strategy = "Rename" =>
        LET n == Len(torrents)
        IN  /\ Len(log) <= 3 * n + 1
            /\ \A k \in 1..Len(log) :
                 /\ log[k].op = ExpectedRename(k, n).op
                 /\ log[k].id = ExpectedRename(k, n).id
                 /\ k < Len(log) => log[k].res = "ok"
                 /\ log[k].op = "rename" =>
                      /\ log[k].a = args.source
                      /\ log[k].b = args.target \o <<args.source[Len(args.source)]>>
            /\ (log # <<>> /\ log[Len(log)].res # "ok") => pc = "failed"
            /\ pc = "done" =>
                 /\ Len(log) = 3 * n + 1
                 /\ log[Len(log)].res = "ok"

\* A move that failed does nothing more.
StopsOnFailure ==
    pc = "failed" =>
        UNCHANGED <<pc, log, paused, client_base, src_present, dst_state>>

\* C7: Under the rename strategy the steps run in this order: pause every
\* selected torrent, rename source to target/basename(source), move_torrent
\* for every selected torrent, resume every selected torrent; when a step
\* fails no later step is run.
C7_RenameStepsInOrder == []RenameOrder /\ [][StopsOnFailure]_vars

C7_Witness ==
    /\ args.strategy = "Rename"
    /\ pc = "done"
    /\ Len(torrents) = 2
    /\ Len(log) = 7

\* A rename move stopped by a failing move_torrent.
C7_FailureWitness ==
    /\ args.strategy = "Rename"
    /\ pc = "failed"
    /\ log # <<>>
    /\ log[Len(log)].op = "move_torrent"
    /\ log[Len(log)].res # "ok"

HitCrossDevice ==
    \E k \in 1..Len(log) : log[k].op = "rename" /\ log[k].res = "CrossesDevices"

\* C8 as stated: when the rename fails with a cross-device error the move
\* does not fail but falls back to copying, and the torrents end up resumed.
C8_CrossDeviceFallsBackToCopy ==
    HitCrossDevice =>
        /\ pc # "failed"
        /\ pc = "done" =>
             /\ paused = {}
             /\ \E k \in 1..Len(log) : log[k].op = "copy" /\ log[k].res = "ok"

\* C8: When the rename strategy's rename of the source fails with a
\* cross-device error, the move fails with that error: the rename is the last
\* effect, nothing is copied or deleted, no torrent is given a new place, and
\* the selected torrents stay paused.
C8_CrossDeviceRenameFails ==
    HitCrossDevice =>
        /\ pc = "failed"
        /\ error = "CrossesDevices"
        /\ log[Len(log)].op = "rename"
        /\ \A k \in 1..Len(log) :
             log[k].op \notin {"copy", "remove", "move_torrent", "resume"}
        /\ src_present
        /\ dst_state = "absent"
        /\ client_base = <<>>
        /\ paused = TorrentIds

C8_Witness ==
    /\ HitCrossDevice
    /\ Len(torrents) = 2
    /\ paused = TorrentIds

SelectedIncomplete == \E i \in 1..Len(torrents) : torrents[i].progress # 100

\* C9: When a torrent selected for a move has progress other than 1.0, the
\* move fails with an Incomplete error before a torrent is paused, a file is
\* renamed or copied, or move_torrent is called.
C9_IncompleteRejectedBeforeEffects ==
    SelectedIncomplete =>
        /\ log = <<>>
        /\ pc # "done"

\* C10: A move whose target is the source or lies below it is rejected under
\* both strategies before any side effect.
C10_TargetInsideSourceRejected ==
    starts_with(args.target, args.source) =>
        /\ log = <<>>
        /\ paused = {}
        /\ pc # "done"

\* The copy strategy alone rejects such a target before any effect.
CopyRejectsTargetInsideSource ==
    (args.strategy = "CopyAndUnlink" /\ starts_with(args.target, args.source)) =>
        /\ log = <<>>
        /\ pc \notin {"running", "done"}

\* ------------------------------------------------------------------------
\* filter_torrents of src/sycli/mod.rs, the one `find` calls, next to the
\* one of move.rs above.

\* The loop that pushes a torrent with files inside and outside the sources.
RECURSIVE SycliFilterLoop_KeepsMixed(_, _, _, _, _)
SycliFilterLoop_KeepsMixed(ts, source_files, k, filtered_torrents, included_paths) ==
    IF k > Len(ts)
    THEN [ok |-> TRUE, filtered_torrents |-> filtered_torrents,
          included_paths |-> included_paths]
    ELSE LET torrent == ts[k]
             inside == {f \in torrent.files : join(torrent.base_path, f) \in source_files}
             paths == included_paths \cup {join(torrent.base_path, f) : f \in inside}
         IN  IF inside = {}
             THEN SycliFilterLoop_KeepsMixed(ts, source_files, k + 1, filtered_torrents, paths)
             ELSE SycliFilterLoop_KeepsMixed(ts, source_files, k + 1,
                                             Append(filtered_torrents, torrent), paths)

\* The loop that passes over such a torrent in silence.
RECURSIVE SycliFilterLoop_SkipsMixed(_, _, _, _, _)
SycliFilterLoop_SkipsMixed(ts, source_files, k, filtered_torrents, included_paths) ==
    IF k > Len(ts)
    THEN [ok |-> TRUE, filtered_torrents |-> filtered_torrents,
          included_paths |-> included_paths]
    ELSE LET torrent == ts[k]
             inside == {f \in torrent.files : join(torrent.base_path, f) \in source_files}
             paths == included_paths \cup {join(torrent.base_path, f) : f \in inside}
         IN  IF inside # torrent.files \/ inside = {}
             THEN SycliFilterLoop_SkipsMixed(ts, source_files, k + 1, filtered_torrents, paths)
             ELSE SycliFilterLoop_SkipsMixed(ts, source_files, k + 1,
                                             Append(filtered_torrents, torrent), paths)

\* The loop over the torrents from the k-th on (lines 208-234).
RECURSIVE SycliFilterLoop(_, _, _, _, _)
SycliFilterLoop(ts, source_files, k, filtered_torrents, included_paths) ==
    IF k > Len(ts)
    THEN [ok |-> TRUE, filtered_torrents |-> filtered_torrents,
          included_paths |-> included_paths]
    ELSE LET torrent == ts[k]
             inside == {f \in torrent.files : join(torrent.base_path, f) \in source_files}
             included == Cardinality(inside)
             missing == {join(torrent.base_path, f) : f \in torrent.files \ inside}
             paths == included_paths \cup {join(torrent.base_path, f) : f \in inside}
         IN  IF Cardinality(missing) = Cardinality(torrent.files)
             THEN SycliFilterLoop(ts, source_files, k + 1, filtered_torrents, paths)
             ELSE IF included > 0 /\ Cardinality(missing) > 0
             THEN [ok |-> FALSE, err |-> "TorrentIncludesSourceAndNonSourceFiles",
                   id |-> torrent.id, missing |-> missing]
             ELSE SycliFilterLoop(ts, source_files, k + 1,
                                  Append(filtered_torrents, torrent), paths)

sycli_filter_torrents(ts, source_files) ==
    LET loop == SycliFilterLoop(ts, source_files, 1, <<>>, {})
    IN  IF ~loop.ok THEN loop
        ELSE IF Cardinality(loop.included_paths) = Cardinality(source_files)
        THEN [ok |-> TRUE, v |-> loop.filtered_torrents]
        ELSE [ok |-> FALSE, err |-> "DidNotMatchAllSourceFiles",
              matched |-> Cardinality(loop.included_paths),
              total |-> Cardinality(source_files)]

\* ---- the inputs of filter_torrents

\* A torrent the client lists without a file.
NoFilesTorrent == [id |-> "E", name |-> "e", base_path |-> <<"src">>, files |-> {}]

FilterLists ==
    {ts \in UNION {[1..k -> {WithProgress(t, 100) : t \in Catalog \cup {NoFilesTorrent}}] :
                     k \in 0..MaxTorrents} :
        \A i, j \in 1..Len(ts) : i # j => ts[i].id # ts[j].id}

SourceSets ==
    SUBSET {<<"src", "x", "f">>, <<"src", "x", "d", "a">>, <<"src", "x">>, <<"src", "y">>}

InitFilter ==
    /\ fpc = "call"
    /\ call \in [fn : {"sycli", "move"}, torrents : FilterLists, source_files : SourceSets]
    /\ ret = None
    /\ IdleDecode
    /\ IdleImport
    /\ IdleMove
    /\ IdleSeed
    /\ IdleBatch

CallFilter ==
    /\ fpc = "call"
    /\ ret' = IF call.fn = "sycli"
              THEN sycli_filter_torrents(call.torrents, call.source_files)
              ELSE filter_torrents(call.torrents, call.source_files)
    /\ fpc' = "ret"
    /\ UNCHANGED <<call, dvars, ivars, mvars, svars, bvars>>

NextFilter == CallFilter

SpecFilter == InitFilter /\ [][NextFilter]_vars

\* ---- what the claims about filter_torrents speak of

FilesInside(t) == {f \in t.files : t.base_path \o f \in call.source_files}

RECURSIVE WithFileInside(_)
WithFileInside(ts) ==
    IF ts = <<>> THEN <<>>
    ELSE IF FilesInside(Head(ts)) # {} THEN <<Head(ts)>> \o WithFileInside(Tail(ts))
    ELSE WithFileInside(Tail(ts))

\* C11: when filter_torrents returns Ok(T), T is the input torrents with a
\* file among the source files, in input order; every file of every torrent
\* of T is a source file, and every source file is a file of a torrent of T.
C11_FilterSelectsCoveringTorrents ==
    (fpc = "ret" /\ ret.ok) =>
        /\ ret.v = WithFileInside(call.torrents)
        /\ \A i \in 1..Len(ret.v) : FilesInside(ret.v[i]) = ret.v[i].files
        /\ \A s \in call.source_files :
              \E i \in 1..Len(ret.v) : \E f \in ret.v[i].files : ret.v[i].base_path \o f = s

C11_Witness ==
    /\ fpc = "ret"
    /\ ret.ok
    /\ Len(call.torrents) = 2
    /\ Len(ret.v) = 1
    /\ Cardinality(call.source_files) = 2

AnyMixed ==
    \E i \in 1..Len(call.torrents) :
        /\ FilesInside(call.torrents[i]) # {}
        /\ FilesInside(call.torrents[i]) # call.torrents[i].files

Covered ==
    {s \in call.source_files :
        \E i \in 1..Len(call.torrents) :
            \E f \in call.torrents[i].files : call.torrents[i].base_path \o f = s}

ReportsUnmatched ==
    /\ ret.err = "DidNotMatchAllSourceFiles"
    /\ ret.matched = Cardinality(Covered)
    /\ ret.total = Cardinality(call.source_files)

\* C12 as stated: a torrent with files inside and outside the source set is
\* the mixed-torrent error; otherwise a source file of no torrent is
\* DidNotMatchAllSourceFiles{matched, total}, also when matched is 0.
C12_FilterErrors ==
    fpc = "ret" =>
        /\ AnyMixed =>
             ~ret.ok /\ ret.err = "TorrentIncludesSourceAndNonSourceFiles"
        /\ (~AnyMixed /\ Covered # call.source_files) =>
             ~ret.ok /\ ReportsUnmatched

\* C12: a torrent with files inside and outside the source set is the
\* mixed-torrent error; otherwise a source file of no torrent is
\* DidNotMatchAllSourceFiles{matched, total} with matched the number of
\* covered source files and total the number of source files, but for the
\* filter_torrents of move.rs when no source file is covered: that is
\* NoMatchingTorrents.
C12_FilterErrorsPerFunction ==
    fpc = "ret" =>
        /\ AnyMixed =>
             ~ret.ok /\ ret.err = "TorrentIncludesSourceAndNonSourceFiles"
        /\ (~AnyMixed /\ Covered # call.source_files) =>
             /\ ~ret.ok
             /\ IF call.fn = "move" /\ Covered = {}
                THEN ret.err = "NoMatchingTorrents"
                ELSE ReportsUnmatched

C12_Witness ==
    /\ fpc = "ret"
    /\ call.fn = "move"
    /\ ~ret.ok
    /\ ret.err = "NoMatchingTorrents"
    /\ Len(call.torrents) = 2
    /\ call.source_files # {}

\* The sycli function reporting no covered source file.
C12_SycliWitness ==
    /\ fpc = "ret"
    /\ call.fn = "sycli"
    /\ ~ret.ok
    /\ ret.err = "DidNotMatchAllSourceFiles"
    /\ ret.matched = 0
    /\ ret.total = 2

\* ------------------------------------------------------------------------
\* calculate_new_base_path called on its own

BasePathTorrents ==
    [id : {"T"},
     name : {"test.txt", "tt", "disc1", "tmp"},
     base_path : {<<>>, <<"tmp">>, <<"tmp", "tt">>, <<"tmp", "tt", "disc1">>, <<"other">>},
     progress : {100},
     files : {{<<"test.txt">>}, {<<"disc1", "test.txt">>}, {<<"a">>, <<"b">>}, {}}]

InitBasePath ==
    /\ fpc = "call"
    /\ call \in [source : {<<>>, <<"tmp">>, <<"tmp", "tt">>},
                 source_is_file : BOOLEAN,
                 target : {<<>>, <<"home", "data">>},
                 torrent : BasePathTorrents]
    /\ ret = None
    /\ IdleDecode
    /\ IdleImport
    /\ IdleMove
    /\ IdleSeed
    /\ IdleBatch

CallBasePath ==
    /\ fpc = "call"
    /\ ret' = calculate_new_base_path(call.source, call.source_is_file, call.target,
                                      call.torrent)
    /\ fpc' = "ret"
    /\ UNCHANGED <<call, dvars, ivars, mvars, svars, bvars>>

NextBasePath == CallBasePath

SpecBasePath == InitBasePath /\ [][NextBasePath]_vars

\* p without its last component
Front(p) == SubSeq(p, 1, Len(p) - 1)

\* p begins with the components of q
HasPrefix(p, q) == Len(q) <= Len(p) /\ \A i \in 1..Len(q) : p[i] = q[i]

\* p without its first n components
Drop(p, n) == [i \in 1..(Len(p) - n) |-> p[i + n]]

OneFileOneComponent(t) ==
    \E f \in t.files : t.files = {f} /\ Len(f) = 1

\* C13: calculate_new_base_path returns target when source is a file; else,
\* for a torrent of one file with a one-component path,
\* target/source.basename/(base_path without the prefix source); else the
\* parent of target/((base_path/name) without the prefix source.parent); it
\* is NotAPrefix when the prefix is none, NoFileName when source has no file
\* name and NoParent when source has no parent.
C13_NewBasePath ==
    fpc = "ret" =>
        LET t == call.torrent
            src == call.source
            original == t.base_path \o <<t.name>>
        IN  IF call.source_is_file
            THEN ret.ok /\ ret.v = call.target
            ELSE IF OneFileOneComponent(t)
            THEN IF ~HasPrefix(t.base_path, src)
                 THEN ~ret.ok /\ ret.err = "NotAPrefix"
                 ELSE IF src = <<>>
                 THEN ~ret.ok /\ ret.err = "NoFileName"
                 ELSE /\ ret.ok
                      /\ ret.v = call.target \o <<src[Len(src)]>>
                                   \o Drop(t.base_path, Len(src))
            ELSE IF src = <<>>
            THEN ~ret.ok /\ ret.err = "NoParent"
            ELSE IF ~HasPrefix(original, Front(src))
            THEN ~ret.ok /\ ret.err = "NotAPrefix"
            ELSE IF call.target \o Drop(original, Len(src) - 1) = <<>>
            THEN ~ret.ok /\ ret.err = "NoParent"
            ELSE /\ ret.ok
                 /\ ret.v = Front(call.target \o Drop(original, Len(src) - 1))

\* The second case of the test calculate_new_base_path_with_multi_file_torrent.
C13_Witness ==
    /\ fpc = "ret"
    /\ ~call.source_is_file
    /\ call.source = <<"tmp", "tt">>
    /\ call.target = <<"home", "data">>
    /\ call.torrent.name = "disc1"
    /\ call.torrent.base_path = <<"tmp", "tt">>
    /\ call.torrent.files = {<<"disc1", "test.txt">>}
    /\ ret.ok
    /\ ret.v = <<"home", "data", "tt">>

\* The third case of calculate_new_base_path_with_single_file_torrent.
C13_SingleFileWitness ==
    /\ fpc = "ret"
    /\ ~call.source_is_file
    /\ call.source = <<"tmp", "tt">>
    /\ call.torrent.base_path = <<"tmp", "tt", "disc1">>
    /\ call.torrent.files = {<<"test.txt">>}
    /\ ret.ok
    /\ ret.v = <<"home", "data", "tt", "disc1">>

\* ------------------------------------------------------------------------
\* get_torrents: src/sycli/mod.rs.  Of a torrent the id, the size and the
\* files are kept; name, path, progress and tracker_urls are copied as they
\* come.

RawTorrentIds == {"A", "B"}

\* What `sycli list -k torrent` can print: each torrent of the client once.
RawTorrentLists ==
    {ts \in UNION {[1..k -> [id : RawTorrentIds, size : 0..3, files : 0..2]] : k \in 0..2} :
        \A i, j \in 1..Len(ts) : i # j => ts[i].id # ts[j].id}

\* What `sycli list -k file` can print.
ClientFileLists ==
    UNION {[1..k -> [torrent_id : RawTorrentIds \cup {"Z"}, path : {<<"p">>, <<"q">>},
                     size : {1, 2}]] : k \in 0..MaxRawFiles}

RECURSIVE SumValues(_)
SumValues(f) ==
    IF DOMAIN f = {} THEN 0
    ELSE LET k == CHOOSE k \in DOMAIN f : TRUE
         IN  f[k] + SumValues([j \in DOMAIN f \ {k} |-> f[j]])

\* lines 73-91: the HashMap from id to (Torrent, files count); of two
\* records with one id the later stays.
TorrentMap(raw_torrents) ==
    [id \in {raw_torrents[i].id : i \in 1..Len(raw_torrents)} |->
        LET last == CHOOSE i \in 1..Len(raw_torrents) :
                        /\ raw_torrents[i].id = id
                        /\ \A j \in (i + 1)..Len(raw_torrents) : raw_torrents[j].id # id
        IN  [torrent |-> [id |-> id, size |-> raw_torrents[last].size, files |-> <<>>],
             files_count |-> raw_torrents[last].files]]

\* lines 95-106: the loop over the file records from the k-th on.
RECURSIVE JoinFiles(_, _, _)
JoinFiles(map, raw_files, k) ==
    IF k > Len(raw_files) THEN [ok |-> TRUE, v |-> map]
    ELSE LET f == raw_files[k]
         IN  IF f.torrent_id \notin DOMAIN map THEN Err("has no matching torrent")
             ELSE IF f.path \in DOMAIN map[f.torrent_id].torrent.files
             THEN Err("has multiple entries for the same path")
             ELSE JoinFiles(
                    [map EXCEPT ![f.torrent_id].torrent.files =
                        [q \in DOMAIN @ \cup {f.path} |-> IF q = f.path THEN f.size ELSE @[q]]],
                    raw_files, k + 1)

\* The checks of one joined torrent without the one of the sizes.
Validate_SkipsSizes(entry) ==
    IF Cardinality(DOMAIN entry.torrent.files) # entry.files_count
    THEN Err("got files but expected")
    ELSE [ok |-> TRUE, v |-> entry.torrent]

\* lines 110-128: the checks of one joined torrent.
Validate(entry) ==
    IF Cardinality(DOMAIN entry.torrent.files) # entry.files_count
    THEN Err("got files but expected")
    ELSE IF SumValues(entry.torrent.files) # entry.torrent.size
    THEN Err("files total bytes but expected")
    ELSE [ok |-> TRUE, v |-> entry.torrent]

\* lines 108-131: map over the HashMap in the order `order` and collect into
\* a Result: the first Err met, else the list.
RECURSIVE CollectValidated(_, _, _, _)
CollectValidated(map, order, k, out) ==
    IF k > Len(order) THEN [ok |-> TRUE, v |-> out]
    ELSE LET r == Validate(map[order[k]])
         IN  IF ~r.ok THEN r
             ELSE CollectValidated(map, order, k + 1, Append(out, r.v))

\* The orders a HashMap with these keys can be walked in.
Orders(S) ==
    {o \in [1..Cardinality(S) -> S] : \A i, j \in DOMAIN o : i # j => o[i] # o[j]}

\* get_torrents, the HashMap being walked in `order`.
get_torrents(raw_torrents, raw_files, order) ==
    LET joined == JoinFiles(TorrentMap(raw_torrents), raw_files, 1)
    IN  IF ~joined.ok THEN joined
        ELSE CollectValidated(joined.v, order, 1, <<>>)

InitGetTorrents ==
    /\ fpc = "call"
    /\ call \in [raw_torrents : RawTorrentLists, raw_files : ClientFileLists]
    /\ ret = None
    /\ IdleDecode
    /\ IdleImport
    /\ IdleMove
    /\ IdleSeed
    /\ IdleBatch

CallGetTorrents ==
    /\ fpc = "call"
    /\ \E order \in Orders({call.raw_torrents[i].id : i \in 1..Len(call.raw_torrents)}) :
         ret' = get_torrents(call.raw_torrents, call.raw_files, order)
    /\ fpc' = "ret"
    /\ UNCHANGED <<call, dvars, ivars, mvars, svars, bvars>>

NextGetTorrents == CallGetTorrents

SpecGetTorrents == InitGetTorrents /\ [][NextGetTorrents]_vars

\* ---- what the claim about get_torrents speaks of

\* The file records of the torrent `id`.
RecordsOf(id) == {k \in 1..Len(call.raw_files) : call.raw_files[k].torrent_id = id}

RECURSIVE SumSizes(_)
SumSizes(ks) ==
    IF ks = {} THEN 0
    ELSE LET k == CHOOSE k \in ks : TRUE
         IN  call.raw_files[k].size + SumSizes(ks \ {k})

Listed(id) == \E i \in 1..Len(call.raw_torrents) : call.raw_torrents[i].id = id

UnlistedFile == \E k \in 1..Len(call.raw_files) : ~Listed(call.raw_files[k].torrent_id)

SamePathTwice ==
    \E j, k \in 1..Len(call.raw_files) :
        /\ j # k
        /\ call.raw_files[j].torrent_id = call.raw_files[k].torrent_id
        /\ call.raw_files[j].path = call.raw_files[k].path

Mismatch ==
    \E i \in 1..Len(call.raw_torrents) :
        LET t == call.raw_torrents[i]
        IN  \/ SumSizes(RecordsOf(t.id)) # t.size
            \/ Cardinality(RecordsOf(t.id)) # t.files

\* C14: every torrent get_torrents returns has files whose sizes sum to its
\* size and as many files as the client reported; a torrent failing either, a
\* file record of an unlisted torrent, or two file records of one torrent
\* with one path make get_torrents an error, with no list.
C14_GetTorrentsValidates ==
    fpc = "ret" =>
        /\ ret.ok =>
             /\ Len(ret.v) = Len(call.raw_torrents)
             /\ \A i \in 1..Len(call.raw_torrents) :
                  \E j \in 1..Len(ret.v) :
                     /\ ret.v[j].id = call.raw_torrents[i].id
                     /\ ret.v[j].size = call.raw_torrents[i].size
                     /\ SumValues(ret.v[j].files) = ret.v[j].size
                     /\ Cardinality(DOMAIN ret.v[j].files) = call.raw_torrents[i].files
                     /\ \A k \in RecordsOf(ret.v[j].id) :
                          /\ call.raw_files[k].path \in DOMAIN ret.v[j].files
                          /\ ret.v[j].files[call.raw_files[k].path] = call.raw_files[k].size
        /\ (UnlistedFile \/ SamePathTwice \/ Mismatch) => ~ret.ok

C14_Witness ==
    /\ fpc = "ret"
    /\ ret.ok
    /\ Len(ret.v) = 2
    /\ Len(call.raw_files) = 2
    /\ \A j \in 1..2 : ret.v[j].size > 0

\* A list refused for the sizes of one torrent alone.
C14_MismatchWitness ==
    /\ fpc = "ret"
    /\ ~ret.ok
    /\ ret.err = "files total bytes but expected"
    /\ Len(call.raw_torrents) = 2

\* ------------------------------------------------------------------------
\* The importer's paths are held as the sequence Path::components yields: an
\* absolute path starts with the root component "/".

RootDir == "/"

\* remove_common_suffix that gives the empty path when both paths end
\* together.
RECURSIVE remove_common_suffix_EmptyWhenEqual(_, _)
remove_common_suffix_EmptyWhenEqual(self, suffix) ==
    IF suffix = <<>> THEN Some(self)
    ELSE IF self = <<>> THEN Nothing
    ELSE IF self[Len(self)] = suffix[Len(suffix)]
    THEN remove_common_suffix_EmptyWhenEqual(SubSeq(self, 1, Len(self) - 1),
                                             SubSeq(suffix, 1, Len(suffix) - 1))
    ELSE Nothing

\* One turn of the loop per call: the match on the two next components from
\* the right.
RECURSIVE remove_common_suffix(_, _)
remove_common_suffix(self, suffix) ==
    IF self # <<>> /\ suffix # <<>> /\ self[Len(self)] = suffix[Len(suffix)]
    THEN remove_common_suffix(SubSeq(self, 1, Len(self) - 1),
                              SubSeq(suffix, 1, Len(suffix) - 1))
    ELSE IF self # <<>> /\ suffix = <<>> THEN Some(self)
    ELSE Nothing

\* The paths of up to n components over two names, relative and absolute.
PathsUpTo(n) ==
    LET rel == UNION {[1..k -> {"a", "b"}] : k \in 0..n}
    IN  rel \cup {<<RootDir>> \o q : q \in {r \in rel : Len(r) < n}}

InitSuffix ==
    /\ fpc = "call"
    /\ call \in [self : PathsUpTo(MaxComponents), suffix : PathsUpTo(MaxComponents)]
    /\ ret = None
    /\ IdleDecode
    /\ IdleImport
    /\ IdleMove
    /\ IdleSeed
    /\ IdleBatch

CallSuffix ==
    /\ fpc = "call"
    /\ ret' = remove_common_suffix(call.self, call.suffix)
    /\ fpc' = "ret"
    /\ UNCHANGED <<call, dvars, ivars, mvars, svars, bvars>>

NextSuffix == CallSuffix

SpecSuffix == InitSuffix /\ [][NextSuffix]_vars

\* Every component of B is the trailing component of A at its place.
IsTrailing(B, A) ==
    /\ Len(B) <= Len(A)
    /\ \A i \in 1..Len(B) : A[Len(A) - Len(B) + i] = B[i]

\* C18: remove_common_suffix(A, B) is Some(P) exactly when every component of
\* B matches the trailing component of A at its place and a component of A
\* remains, P being the remaining leading components of A in order, the root
\* included; in every other case it is None.
C18_RemoveCommonSuffix ==
    fpc = "ret" =>
        LET A == call.self
            B == call.suffix
        IN  IF IsTrailing(B, A) /\ Len(A) > Len(B)
            THEN ret = Some([i \in 1..(Len(A) - Len(B)) |-> A[i]])
            ELSE ret = Nothing

\* /a/b without b is /a.
C18_Witness ==
    /\ fpc = "ret"
    /\ call.self = <<RootDir, "a", "b">>
    /\ call.suffix = <<"b">>
    /\ ret = Some(<<RootDir, "a">>)

\* A and B consumed together.
C18_NoneWitness ==
    /\ fpc = "ret"
    /\ call.self = <<"a", "b">>
    /\ call.suffix = <<"a", "b">>
    /\ ret = Nothing

\* ------------------------------------------------------------------------
\* get_best_candidate.  Path is Ord by its components, so here a component
\* is a number: 0 the root, 1 and 2 two names in their order.

\* .rev().zip(..rev()).take_while(|(x, y)| x == y).count()
RECURSIVE CommonSuffixCount(_, _)
CommonSuffixCount(p, q) ==
    IF p # <<>> /\ q # <<>> /\ p[Len(p)] = q[Len(q)]
    THEN 1 + CommonSuffixCount(SubSeq(p, 1, Len(p) - 1), SubSeq(q, 1, Len(q) - 1))
    ELSE 0

\* .zip(..).take_while(|(x, y)| x == y).count()
RECURSIVE CommonPrefixCount(_, _)
CommonPrefixCount(p, q) ==
    IF p # <<>> /\ q # <<>> /\ p[1] = q[1]
    THEN 1 + CommonPrefixCount(Tail(p), Tail(q))
    ELSE 0

\* Ord of Path: the components compared from the left, a proper prefix first.
RECURSIVE PathCmp(_, _)
PathCmp(p, q) ==
    IF p = <<>> /\ q = <<>> THEN 0
    ELSE IF p = <<>> THEN -1
    ELSE IF q = <<>> THEN 1
    ELSE IF p[1] < q[1] THEN -1
    ELSE IF p[1] > q[1] THEN 1
    ELSE PathCmp(Tail(p), Tail(q))

\* The tuple of the closure: (common_suffix, common_prefix, candidate).
CandidateKey(candidate, path, preferred_prefix) ==
    [common_suffix |-> CommonSuffixCount(candidate, path),
     common_prefix |-> IF preferred_prefix.some
                       THEN CommonPrefixCount(candidate, preferred_prefix.v)
                       ELSE 0,
     candidate |-> candidate]

\* A key order that looks at the shared prefix before the shared suffix.
KeyCmp_PrefixFirst(x, y) ==
    IF x.common_prefix # y.common_prefix
    THEN (IF x.common_prefix < y.common_prefix THEN -1 ELSE 1)
    ELSE IF x.common_suffix # y.common_suffix
    THEN (IF x.common_suffix < y.common_suffix THEN -1 ELSE 1)
    ELSE PathCmp(x.candidate, y.candidate)

\* Ord of the tuple
KeyCmp(x, y) ==
    IF x.common_suffix # y.common_suffix
    THEN (IF x.common_suffix < y.common_suffix THEN -1 ELSE 1)
    ELSE IF x.common_prefix # y.common_prefix
    THEN (IF x.common_prefix < y.common_prefix THEN -1 ELSE 1)
    ELSE PathCmp(x.candidate, y.candidate)

\* Iterator::max over the keys from the k-th on: of equal maxima the last.
RECURSIVE MaxKey(_, _, _)
MaxKey(keys, k, best) ==
    IF k > Len(keys) THEN best
    ELSE MaxKey(keys, k + 1, IF KeyCmp(keys[k], best) >= 0 THEN keys[k] ELSE best)

get_best_candidate(path, candidates, preferred_prefix) ==
    IF candidates = <<>> THEN Nothing
    ELSE LET keys == [i \in 1..Len(candidates) |->
                         CandidateKey(candidates[i], path, preferred_prefix)]
         IN  Some(<<path, MaxKey(keys, 2, keys[1]).candidate>>)

\* ---- the inputs of get_best_candidate

TorrentFilePaths == UNION {[1..k -> {1, 2}] : k \in 1..2}

CandidatePaths ==
    {<<0, 1, 1>>, <<0, 1, 2>>, <<0, 2, 1>>, <<0, 2, 2>>, <<0, 2, 1, 2>>, <<0, 1>>}

InitBest ==
    /\ fpc = "call"
    /\ call \in [path : TorrentFilePaths,
                 candidates : UNION {[1..k -> CandidatePaths] : k \in 0..MaxCandidates},
                 preferred_prefix : {Nothing} \cup {Some(q) : q \in {<<0, 1, 1>>, <<0, 2, 1>>}}]
    /\ ret = None
    /\ IdleDecode
    /\ IdleImport
    /\ IdleMove
    /\ IdleSeed
    /\ IdleBatch

CallBest ==
    /\ fpc = "call"
    /\ ret' = get_best_candidate(call.path, call.candidates, call.preferred_prefix)
    /\ fpc' = "ret"
    /\ UNCHANGED <<call, dvars, ivars, mvars, svars, bvars>>

NextBest == CallBest

SpecBest == InitBest /\ [][NextBest]_vars

\* ---- what the claim about get_best_candidate speaks of

\* The number of trailing components p and q share.
TrailingShared(p, q) ==
    CHOOSE n \in 0..Len(p) :
        /\ n <= Len(q)
        /\ \A i \in 0..(n - 1) : p[Len(p) - i] = q[Len(q) - i]
        /\ ~(n < Len(p) /\ n < Len(q) /\ p[Len(p) - n] = q[Len(q) - n])

\* The number of leading components p and q share.
LeadingShared(p, q) ==
    CHOOSE n \in 0..Len(p) :
        /\ n <= Len(q)
        /\ \A i \in 1..n : p[i] = q[i]
        /\ ~(n < Len(p) /\ n < Len(q) /\ p[n + 1] = q[n + 1])

\* p is before q in the order of paths.
PathBefore(p, q) ==
    \E n \in 0..Len(p) :
        /\ n <= Len(q)
        /\ \A i \in 1..n : p[i] = q[i]
        /\ \/ n = Len(p) /\ n < Len(q)
           \/ n < Len(p) /\ n < Len(q) /\ p[n + 1] < q[n + 1]

PreferredShared(c) ==
    IF call.preferred_prefix.some THEN LeadingShared(c, call.preferred_prefix.v) ELSE 0

\* The key of c is before the key of d, lexicographically.
KeyBefore(c, d) ==
    \/ TrailingShared(c, call.path) < TrailingShared(d, call.path)
    \/ /\ TrailingShared(c, call.path) = TrailingShared(d, call.path)
       /\ \/ PreferredShared(c) < PreferredShared(d)
          \/ PreferredShared(c) = PreferredShared(d) /\ PathBefore(c, d)

\* C19: get_best_candidate is None exactly when there is no candidate; else
\* it is (rel_path, c) with c the candidate of the greatest key (shared
\* trailing components with rel_path, shared leading components with the
\* preferred prefix or 0, the candidate path).
C19_BestCandidateHasGreatestKey ==
    fpc = "ret" =>
        /\ ret = Nothing <=> call.candidates = <<>>
        /\ call.candidates # <<>> =>
             /\ ret.some
             /\ ret.v[1] = call.path
             /\ \E i \in 1..Len(call.candidates) : call.candidates[i] = ret.v[2]
             /\ \A i \in 1..Len(call.candidates) : ~KeyBefore(ret.v[2], call.candidates[i])

\* The longer shared suffix wins over the shared prefix.
C19_Witness ==
    /\ fpc = "ret"
    /\ call.path = <<1, 2>>
    /\ call.preferred_prefix = Some(<<0, 2, 1>>)
    /\ call.candidates = <<<<0, 1, 2>>, <<0, 2, 1>>>>
    /\ ret = Some(<<<<1, 2>>, <<0, 1, 2>>>>)

\* Equal counts: the greater path wins.
C19_TieWitness ==
    /\ fpc = "ret"
    /\ call.path = <<1>>
    /\ call.preferred_prefix = Nothing
    /\ call.candidates = <<<<0, 2, 1>>, <<0, 1, 1>>>>
    /\ ret = Some(<<<<1>>, <<0, 2, 1>>>>)

\* ------------------------------------------------------------------------
\* cross_seed: src/subcommands/import.rs, lines 226-298, after the hash check
\* of process_torrent.

\* Path::parent
path_parent(p) ==
    IF p = <<>> \/ p = <<RootDir>> THEN Nothing ELSE Some(SubSeq(p, 1, Len(p) - 1))

\* Path::file_name
path_file_name(p) ==
    IF p = <<>> \/ p[Len(p)] = RootDir THEN Nothing ELSE Some(p[Len(p)])

\* The .torrent file and the directory the symlinks go to.
MetainfoPath == <<"m.torrent">>
TargetDir == <<RootDir, "tgt">>

\* base_dir: target_dir joined with the host of the announce URL.
base_dir(target_dir, host) ==
    IF host.some THEN [ok |-> TRUE, v |-> target_dir \o <<host.v>>]
    ELSE Err("announce URL has no hostname")

\* An operation handed to the filesystem or to the client.
Op(op, a, b) == [op |-> op, a |-> a, b |-> b]

\* add_torrent(path, seed_root) unless skip_add
AddUnlessSkipped(skip_add, seed_root) ==
    IF skip_add THEN <<>> ELSE <<Op("AddTorrent", MetainfoPath, seed_root)>>

\* The source path chosen for the metainfo path rel.
SourceOf(m, paths, rel) == paths[m[rel]]

\* The single-file branch with the torrent added before its symlink exists.
SingleFileSteps_AddsFirst(m, paths, f, host) ==
    LET rel == CHOOSE r \in DOMAIN m : TRUE
        src == SourceOf(m, paths, rel)
    IN  IF rel = <<path_file_name(src).v>>
        THEN [ok |-> TRUE, v |-> AddUnlessSkipped(f.skip_add, path_parent(src).v)]
        ELSE IF ~base_dir(TargetDir, host).ok THEN base_dir(TargetDir, host)
        ELSE LET base == base_dir(TargetDir, host).v
             IN  [ok |-> TRUE,
                  v |-> AddUnlessSkipped(f.skip_add, base)
                        \o <<Op("Mkdirp", base, <<>>), Op("Symlink", base \o rel, src)>>]

\* lines 234-261: the branch of a single-file torrent.
SingleFileSteps(m, paths, f, host) ==
    LET rel == CHOOSE r \in DOMAIN m : TRUE
        src == SourceOf(m, paths, rel)
    IN  IF rel = <<path_file_name(src).v>>
        THEN [ok |-> TRUE, v |-> AddUnlessSkipped(f.skip_add, path_parent(src).v)]
        ELSE IF ~base_dir(TargetDir, host).ok THEN base_dir(TargetDir, host)
        ELSE LET base == base_dir(TargetDir, host).v
             IN  [ok |-> TRUE,
                  v |-> <<Op("Mkdirp", base, <<>>), Op("Symlink", base \o rel, src)>>
                        \o AddUnlessSkipped(f.skip_add, base)]

\* lines 287-292: the turns of the loop over the mapping for the entries of
\* `order` from the k-th on.
RECURSIVE LinkSteps(_, _, _, _, _)
LinkSteps(m, paths, base, order, k) ==
    IF k > Len(order) THEN <<>>
    ELSE LET rel == order[k]
         IN  (IF path_parent(rel).some
              THEN <<Op("Mkdirp", base \o path_parent(rel).v, <<>>)>>
              ELSE <<>>)
             \o <<Op("Symlink", base \o rel, SourceOf(m, paths, rel))>>
             \o LinkSteps(m, paths, base, order, k + 1)

\* The multi-file branch that adds the torrent whatever skip_add says.
MultiFileSteps_AlwaysAdds(m, paths, f, host, order) ==
    LET path_prefix == {remove_common_suffix(SourceOf(m, paths, rel), rel) : rel \in DOMAIN m}
    IN  IF Nothing \notin path_prefix /\ Cardinality(path_prefix) = 1
        THEN [ok |-> TRUE,
              v |-> AddUnlessSkipped(FALSE, (CHOOSE x \in path_prefix : TRUE).v)]
        ELSE IF ~base_dir(TargetDir, host).ok THEN base_dir(TargetDir, host)
        ELSE LET base == base_dir(TargetDir, host).v
             IN  [ok |-> TRUE,
                  v |-> LinkSteps(m, paths, base, order, 1)
                        \o AddUnlessSkipped(FALSE, base)]

\* lines 263-297: the branch of a multi-file torrent, the mapping being
\* walked in `order`.
MultiFileSteps(m, paths, f, host, order) ==
    LET path_prefix == {remove_common_suffix(SourceOf(m, paths, rel), rel) : rel \in DOMAIN m}
    IN  IF Nothing \notin path_prefix /\ Cardinality(path_prefix) = 1
        THEN [ok |-> TRUE,
              v |-> AddUnlessSkipped(f.skip_add, (CHOOSE x \in path_prefix : TRUE).v)]
        ELSE IF ~base_dir(TargetDir, host).ok THEN base_dir(TargetDir, host)
        ELSE LET base == base_dir(TargetDir, host).v
             IN  [ok |-> TRUE,
                  v |-> LinkSteps(m, paths, base, order, 1)
                        \o AddUnlessSkipped(f.skip_add, base)]

\* cross_seed up to its first operation: which operations it will issue.
CrossSeedEnter ==
    /\ ipc = "cross_seed"
    /\ \E order \in Orders(DOMAIN mapping) :
         LET plan == IF info.is_single_file
                     THEN SingleFileSteps(mapping, src_paths, flags, announce)
                     ELSE MultiFileSteps(mapping, src_paths, flags, announce, order)
         IN  IF ~plan.ok
             THEN /\ ipc' = "error_seed"
                  /\ UNCHANGED <<steps, si>>
             ELSE /\ steps' = plan.v
                  /\ si' = 1
                  /\ ipc' = IF plan.v = <<>> THEN "done" ELSE "seeding"
    /\ UNCHANGED <<meta, content, entries, disk, unreadable, flags, info, mapping, checked,
                   failed_paths, src_paths, announce, run, effects, mirror, mirror1,
                   dvars, mvars, pvars, bvars>>

\* The directories create_dir_all(path) leaves: path and what is above it.
Ancestors(path) == {SubSeq(path, 1, n) : n \in 1..Len(path)}

\* add_torrent(metainfo_path, seed_root) of the client adapter: the client
\* takes the torrent or the call fails.
add_torrent(metainfo_path, seed_root) == {"ok", "sycli"}

\* What the operation can come to, on the disk as it is.  The dry-run
\* instances print and return Ok.
Outcomes(op, f, mir) ==
    IF op.op = "AddTorrent" THEN add_torrent(op.a, op.b)
    ELSE IF f.dry_run THEN {"ok"}
    ELSE IF op.op = "Mkdirp"
    THEN (IF Ancestors(op.a) \cap DOMAIN mir.links # {} THEN {"NotADirectory"}
          ELSE {"ok", "io"})
    ELSE (IF op.a \in DOMAIN mir.links \cup mir.dirs THEN {"AlreadyExists"}
          ELSE {"ok", "io"})

\* The disk after the operation succeeded.
Applied(op, f, mir) ==
    IF op.op = "AddTorrent" \/ f.dry_run THEN mir
    ELSE IF op.op = "Mkdirp"
    THEN [mir EXCEPT !.dirs = @ \cup Ancestors(op.a)]
    ELSE [mir EXCEPT !.links = [l \in DOMAIN @ \cup {op.a} |->
                                   IF l = op.a THEN op.b ELSE @[l]]]

\* One operation of cross_seed, each followed by `?`.
SeedStep ==
    /\ ipc = "seeding"
    /\ \E res \in Outcomes(steps[si], flags, mirror) :
         /\ effects' = Append(effects, [op |-> steps[si].op, a |-> steps[si].a,
                                        b |-> steps[si].b, res |-> res])
         /\ IF res # "ok"
            THEN /\ ipc' = "error_seed"
                 /\ UNCHANGED <<mirror, si>>
            ELSE /\ mirror' = Applied(steps[si], flags, mirror)
                 /\ si' = si + 1
                 /\ ipc' = IF si = Len(steps) THEN "done" ELSE "seeding"
    /\ UNCHANGED <<meta, content, entries, disk, unreadable, flags, info, mapping, checked,
                   failed_paths, src_paths, announce, run, steps, mirror1,
                   dvars, mvars, pvars, bvars>>

\* The same torrent imported once more, sources and symlink directory as the
\* first import left them: decode and mapping come out the same.
ImportAgain ==
    /\ ipc = "done"
    /\ run = 1
    /\ run' = 2
    /\ mirror1' = mirror
    /\ ipc' = "selected"
    /\ failed_paths' = {}
    /\ steps' = <<>>
    /\ si' = 0
    /\ effects' = <<>>
    /\ UNCHANGED <<meta, content, entries, disk, unreadable, flags, info, mapping, checked,
                   src_paths, announce, mirror, dvars, mvars, pvars, bvars>>

\* ---- the torrents and the sources of SpecSeed

\* The paths a torrent of k files can give them in its info dictionary.
SeedFilePaths(k) ==
    {ps \in [1..k -> {<<"f1">>, <<"d", "f1">>, <<"f2">>, <<"d", "f2">>, <<"e", "f2">>}] :
        \A i \in 1..k : ps[i][Len(ps[i])] = FileNames[i]}

\* The .torrent of `cont` with the file paths ps and the piece length p:
\* with p = 1 every byte has its digest; with p = 0 `pieces` is one digest,
\* that of the whole content.
SeedMeta(cont, single, ps, p) ==
    [name |-> TorrentName,
     files |-> IF single THEN Nothing
               ELSE Some([i \in 1..Len(cont) |-> [length |-> Len(cont[i]), path |-> ps[i]]]),
     length |-> IF single THEN Some(Len(cont[1])) ELSE Nothing,
     piece_length |-> p,
     pieces |-> [chunks |-> IF p = 0 THEN <<Sha1(Concat(cont))>>
                            ELSE [j \in 1..Len(Concat(cont)) |->
                                     Sha1(ContentPiece(cont, p, j))],
                 tail |-> 0]]

\* The bytes of the files of a torrent of k files: the first has one or two
\* bytes, the others one.
SeedContents(k) ==
    {[i \in 1..k |-> IF i = 1 THEN first ELSE <<0>>] : first \in {<<0>>, <<0, 0>>}}

\* What the sources hold when they are hashed: the torrent's bytes, or
\* these with the last byte of a file changed.
SeedDisks(cont) ==
    {d \in [1..Len(cont) -> {<<0>>, <<1>>, <<0, 0>>, <<0, 1>>}] :
        \A i \in 1..Len(cont) :
            d[i] \in {cont[i], [cont[i] EXCEPT ![Len(cont[i])] = 1]}}

\* Where the source of the metainfo path rel can lie: under /s or /r with
\* the same trailing path, under another directory name, or at rel itself.
SourceChoices(rel) ==
    {<<RootDir, "s">> \o rel, <<RootDir, "r">> \o rel,
     <<RootDir, "s", "u">> \o Tail(rel), rel}

InitSeed ==
    /\ ipc = "selected"
    /\ \E k \in 1..SMaxFiles :
         /\ content \in SeedContents(k)
         /\ \E single \in {b \in BOOLEAN : b => k = 1}, ps \in SeedFilePaths(k), p \in {0, 1} :
              /\ meta = SeedMeta(content, single, ps, p)
              /\ info = deserialize_info(meta).info
         /\ entries = enumerate_files_with_sizes(1..k, content)
         /\ disk \in SeedDisks(content)
         /\ mapping = [rel \in Paths(info) |->
                          CHOOSE i \in 1..k : info.files[i].path = rel]
         /\ src_paths \in {sp \in [1..k -> UNION {SourceChoices(rel) : rel \in Paths(info)}] :
                             \A i \in 1..k : sp[i] \in SourceChoices(info.files[i].path)}
    /\ unreadable \in {{}, {1}}
    /\ flags \in [dry_run : BOOLEAN, skip_add : BOOLEAN, pieces_to_test : {1}]
    /\ checked \in PiecesToCheck(info, flags)
    /\ failed_paths = {}
    /\ announce \in {Some("host"), Nothing}
    /\ run = 1
    /\ steps = <<>>
    /\ si = 0
    /\ effects = <<>>
    /\ mirror = [dirs |-> {}, links |-> <<>>]
    /\ mirror1 = None
    /\ IdleDecode
    /\ IdleMove
    /\ IdlePure
    /\ IdleBatch

NextSeed == HashCheck \/ CrossSeedEnter \/ SeedStep \/ ImportAgain

SpecSeed == InitSeed /\ [][NextSeed]_vars

\* ---- what the claims about cross_seed speak of

\* cross_seed was entered and decided what to do.
Seeded == ipc \in {"seeding", "done", "error_seed"}

\* The operations issued so far, without their results.
Issued == [i \in 1..Len(effects) |->
              [op |-> effects[i].op, a |-> effects[i].a, b |-> effects[i].b]]

\* The i-th operation was issued and succeeded.
Succeeded(i) == i \in 1..Len(effects) /\ effects[i].res = "ok"

\* The operations come one after the other, each after the success of all
\* before it, and a run that ends well has issued all of `expected`.
IssuedInOrder(expected) ==
    /\ Len(effects) <= Len(expected)
    /\ \A i \in 1..Len(effects) : Issued[i] = expected[i]
    /\ \A i \in 1..(Len(effects) - 1) : Succeeded(i)
    /\ ipc = "done" => Len(effects) = Len(expected) /\ \A i \in 1..Len(effects) : Succeeded(i)

\* Nothing lies below the symlink directory.
NothingCreated == mirror.dirs = {} /\ DOMAIN mirror.links = {}

\* No directory or symlink operation was issued.
NoneOfFilesystem == \A i \in 1..Len(effects) : effects[i].op = "AddTorrent"

\* target_dir / host(announce)
MirrorRoot == TargetDir \o <<announce.v>>

\* The sole entry of a single-file torrent's mapping.
SoleRel == CHOOSE rel \in DOMAIN mapping : TRUE

SoleSrc == src_paths[mapping[SoleRel]]

\* rel is the file name of src.
SoleDirect == SoleRel = <<SoleSrc[Len(SoleSrc)]>>

\* The AddTorrent of seed_root, present iff adding was asked for.
AddIfAsked(seed_root) ==
    IF flags.skip_add THEN <<>>
    ELSE <<[op |-> "AddTorrent", a |-> MetainfoPath, b |-> seed_root]>>

\* C15: for a verified single-file torrent with the sole mapping (rel, src):
\* when rel is the file name of src nothing is created in the file system
\* and the only operation is AddTorrent(metainfo, src.parent); otherwise the
\* operations are, in this order, Mkdirp(mirror_root), Symlink(mirror_root/rel
\* -> src), AddTorrent(metainfo, mirror_root).  AddTorrent is issued iff
\* skip_add is false, and only after the steps before it succeeded.
C15_SingleFileSeeding ==
    (Seeded /\ info.is_single_file /\ (SoleDirect \/ announce.some)) =>
        IF SoleDirect
        THEN /\ IssuedInOrder(AddIfAsked(Front(SoleSrc)))
             /\ NoneOfFilesystem
             /\ mirror = IF run = 1 THEN [dirs |-> {}, links |-> <<>>] ELSE mirror1
        ELSE IssuedInOrder(
                 <<[op |-> "Mkdirp", a |-> MirrorRoot, b |-> <<>>],
                   [op |-> "Symlink", a |-> MirrorRoot \o SoleRel, b |-> SoleSrc]>>
                 \o AddIfAsked(MirrorRoot))

\* A single-file torrent whose source has another name was linked and added.
C15_Witness ==
    /\ ipc = "done"
    /\ info.is_single_file
    /\ ~SoleDirect
    /\ Len(effects) = 3
    /\ effects[3].op = "AddTorrent"
    /\ ~flags.dry_run
    /\ MirrorRoot \o SoleRel \in DOMAIN mirror.links

\* A single-file torrent was added at the directory of its source.
C15_DirectWitness ==
    /\ ipc = "done"
    /\ info.is_single_file
    /\ SoleDirect
    /\ Len(effects) = 1
    /\ effects[1].b = Front(SoleSrc)

\* remove_common_suffix(src, rel) is the same prefix for every entry.
SamePrefix(P) ==
    \A rel \in DOMAIN mapping :
        LET src == src_paths[mapping[rel]]
        IN  /\ Len(rel) < Len(src)
            /\ P = SubSeq(src, 1, Len(src) - Len(rel))
            /\ src = P \o rel

DirectPrefixes ==
    {P \in UNION {{SubSeq(src_paths[i], 1, n) : n \in 1..Len(src_paths[i])} :
                     i \in DOMAIN src_paths} : SamePrefix(P)}

\* The places in the effects of the operation op on the path a.
Places(op, a) == {i \in 1..Len(effects) : effects[i].op = op /\ effects[i].a = a}

\* C16: for a verified multi-file torrent: when remove_common_suffix(src,
\* rel) is the same non-null prefix P for every mapping entry nothing is
\* created in the file system and the only operation is AddTorrent(metainfo,
\* P); otherwise every Symlink(mirror_root/rel -> src) comes after a
\* successful Mkdirp(mirror_root/rel.parent), a run that ends well has made
\* exactly one symlink per metainfo path, and AddTorrent(metainfo,
\* mirror_root) is the last operation, after all symlinks succeeded.
\* AddTorrent is issued iff skip_add is false.
C16_MultiFileSeeding ==
    (Seeded /\ ~info.is_single_file /\ (DirectPrefixes # {} \/ announce.some)) =>
        IF DirectPrefixes # {}
        THEN /\ \E P \in DirectPrefixes : IssuedInOrder(AddIfAsked(P))
             /\ NoneOfFilesystem
             /\ mirror = IF run = 1 THEN [dirs |-> {}, links |-> <<>>] ELSE mirror1
        ELSE /\ \A i \in 1..Len(effects) :
                  /\ i < Len(effects) => Succeeded(i)
                  /\ effects[i].op = "Symlink" =>
                       /\ \E rel \in DOMAIN mapping :
                            /\ effects[i].a = MirrorRoot \o rel
                            /\ effects[i].b = src_paths[mapping[rel]]
                       /\ \E j \in Places("Mkdirp", Front(effects[i].a)) : j < i
                       /\ Places("Symlink", effects[i].a) = {i}
                  /\ effects[i].op = "Mkdirp" =>
                       \E rel \in DOMAIN mapping : effects[i].a = MirrorRoot \o Front(rel)
                  /\ effects[i].op = "AddTorrent" =>
                       /\ i = Len(effects)
                       /\ ~flags.skip_add
                       /\ effects[i].a = MetainfoPath
                       /\ effects[i].b = MirrorRoot
                       /\ \A rel \in DOMAIN mapping :
                              \E j \in Places("Symlink", MirrorRoot \o rel) : j < i
             /\ ipc = "done" =>
                  /\ \A rel \in DOMAIN mapping :
                         Cardinality(Places("Symlink", MirrorRoot \o rel)) = 1
                  /\ Succeeded(Len(effects))
                  /\ ~flags.skip_add <=> effects[Len(effects)].op = "AddTorrent"

\* Two files found under different directories were linked below the
\* symlink directory, each in the directory the torrent gives it, and the
\* torrent was added there.
C16_Witness ==
    /\ ipc = "done"
    /\ ~info.is_single_file
    /\ Len(info.files) = 2
    /\ DirectPrefixes = {}
    /\ ~flags.dry_run
    /\ effects[Len(effects)].op = "AddTorrent"
    /\ Cardinality(DOMAIN mirror.links) = 2
    /\ \E rel \in DOMAIN mapping : Len(rel) = 3

\* Two files found under one directory with the torrent's layout were added
\* from that directory.
C16_DirectWitness ==
    /\ ipc = "done"
    /\ ~info.is_single_file
    /\ Len(info.files) = 2
    /\ DirectPrefixes = {<<RootDir, "s">>}
    /\ Len(effects) = 1

\* The second import ran to its end, live, and neither the disk nor the
\* client failed under it.
SecondImportOver ==
    /\ run = 2
    /\ ~flags.dry_run
    /\ ipc \in {"done", "error_seed"}
    /\ \A i \in 1..Len(effects) : effects[i].res \notin {"io", "sycli"}

\* C17: the live import of the same torrent, run a second time against the
\* same sources and the symlink directory the first run left, succeeds and
\* leaves the directories and symlinks as the first run left them, also when
\* the first run made directories and symlinks.
C17_SecondImportSucceeds ==
    SecondImportOver => ipc = "done" /\ mirror = mirror1

\* C20: when the hash check reports a failed path the torrent's processing
\* stops with the error naming the failed paths: no directory or symlink is
\* made and no AddTorrent is issued for it, then or later.
C20_FailedCheckStopsTorrent ==
    /\ [](failed_paths # {} =>
            /\ ipc = "error_hash_check"
            /\ effects = <<>>
            /\ steps = <<>>
            /\ NothingCreated)
    /\ [][ipc = "error_hash_check" => UNCHANGED <<ipc, failed_paths, effects, mirror>>]_vars

\* The check of a torrent of two files found one of them changed on disk.
C20_Witness ==
    /\ ipc = "error_hash_check"
    /\ Len(info.files) = 2
    /\ \E rel \in failed_paths : disk[mapping[rel]] # content[mapping[rel]]
    /\ \E rel \in DOMAIN mapping : rel \notin failed_paths

\* ------------------------------------------------------------------------
\* What the claim about the tiling of the files speaks of (SpecDecode).

\* The slices of a decoded Info in piece order, then slice order.
AllSlices(inf) == Concat([j \in 1..Len(inf.pieces) |-> inf.pieces[j].file_slices])

\* The slices that reference the i-th file, in that order.
RECURSIVE SlicesOfFile(_, _)
SlicesOfFile(sl, path) ==
    IF sl = <<>> THEN <<>>
    ELSE (IF Head(sl).path = path THEN <<Head(sl)>> ELSE <<>>) \o SlicesOfFile(Tail(sl), path)

\* The slices start at offset 0, each starts where the one before it ends,
\* and none reaches past `length`.
Contiguous(sl, length) ==
    /\ sl # <<>> => sl[1].offset = 0
    /\ \A k \in 1..(Len(sl) - 1) : sl[k + 1].offset = sl[k].offset + sl[k].length
    /\ \A k \in 1..Len(sl) : sl[k].offset + sl[k].length <= length

SliceBytes(sl) == SumSeq([k \in 1..Len(sl) |-> sl[k].length])

\* No slice of a later file comes before a slice of an earlier file.
FilesInDeclaredOrder(inf) ==
    LET sl == AllSlices(inf)
    IN  \A a, b \in 1..Len(sl) :
            a < b => FileIndexOf(inf, sl[a].path) <= FileIndexOf(inf, sl[b].path)

\* C30: in every decoded Info the slices of each file of non-zero length,
\* taken in piece order, tile the file exactly: the first is at offset 0,
\* each next one starts where the one before ends, none reaches past the
\* file's length and their lengths sum to the file's length; and no slice of
\* a later file precedes a slice of an earlier file.
C30_SlicesTileFiles ==
    Accepted =>
        /\ \A i \in 1..Len(decoded.info.files) :
              decoded.info.files[i].length > 0 =>
                  LET sl == SlicesOfFile(AllSlices(decoded.info), decoded.info.files[i].path)
                  IN  /\ Contiguous(sl, decoded.info.files[i].length)
                      /\ SliceBytes(sl) = decoded.info.files[i].length
        /\ FilesInDeclaredOrder(decoded.info)

\* What the walk does guarantee: the slices of a file are contiguous from
\* offset 0 and inside the file, files come in declared order, and when the
\* hashes reach the last byte every file is covered whole.
SlicesTileWhatIsHashed ==
    Accepted =>
        /\ \A i \in 1..Len(decoded.info.files) :
              LET sl == SlicesOfFile(AllSlices(decoded.info), decoded.info.files[i].path)
              IN  /\ Contiguous(sl, decoded.info.files[i].length)
                  /\ ~TooFewHashes => SliceBytes(sl) = decoded.info.files[i].length
        /\ FilesInDeclaredOrder(decoded.info)

\* ------------------------------------------------------------------------
\* What the claim about the sampling speaks of (SpecImport).

\* The pieces to hash were chosen.
PiecesSelected == ipc \in {"selected", "panic", "error_hash_check", "cross_seed"}

\* dry_run || skip_add
Sampling == flags.dry_run \/ flags.skip_add

\* The number of pieces with a slice of `path`.
TouchCount(path) == Cardinality(PiecesTouching(info, path))

\* The pieces with a slice of `path` that are hashed.
CheckedTouching(path) == checked \cap PiecesTouching(info, path)

\* What holds of the checked set whatever is said of each path.
SampleWithinBounds ==
    /\ checked \subseteq 1..Len(info.pieces)
    /\ Sampling => Cardinality(checked) <= flags.pieces_to_test * Len(info.files)
    /\ ~Sampling => checked = 1..Len(info.pieces)

\* C26: in sampling mode with k pieces per file, for every metainfo path
\* touched by n >= 1 pieces exactly min(k, n) pieces touching that path are
\* in the checked set; the checked set is a subset of the torrent's pieces
\* of at most k times the number of files; sampling is used exactly when
\* dry_run or skip_add is set.
C26_SampleExactlyPerPath ==
    PiecesSelected =>
        /\ Sampling =>
              \A path \in Paths(info) :
                  TouchCount(path) >= 1 =>
                      Cardinality(CheckedTouching(path))
                        = Min(flags.pieces_to_test, TouchCount(path))
        /\ SampleWithinBounds

\* C26 as the code has it: at least min(k, n) pieces touching the path are
\* in the checked set (a piece kept for another path may touch it as well).
C26_SampleAtLeastPerPath ==
    PiecesSelected =>
        /\ Sampling =>
              \A path \in Paths(info) :
                  TouchCount(path) >= 1 =>
                      Cardinality(CheckedTouching(path))
                        >= Min(flags.pieces_to_test, TouchCount(path))
        /\ SampleWithinBounds

\* A sample of one piece per file in which a file touched by two pieces has
\* both of them hashed, one of them kept for the other file.
C26_Witness ==
    /\ PiecesSelected
    /\ Sampling
    /\ flags.pieces_to_test = 1
    /\ \E path \in Paths(info) :
         /\ TouchCount(path) = 2
         /\ Cardinality(CheckedTouching(path)) = 2

\* A sample that leaves a piece out.
C26_ProperSampleWitness ==
    /\ PiecesSelected
    /\ Sampling
    /\ checked # 1..Len(info.pieces)
    /\ \E path \in Paths(info) : TouchCount(path) > flags.pieces_to_test

\* ------------------------------------------------------------------------
\* What the claim about the check before a live AddTorrent speaks of.

\* An AddTorrent was issued to the client for real.
LiveAddIssued ==
    /\ ~flags.dry_run
    /\ \E i \in 1..Len(effects) : effects[i].op = "AddTorrent"

\* The bytes the slices of the j-th piece name in the mapped sources.
RECURSIVE SourceBytes(_, _)
SourceBytes(sl, k) ==
    IF k > Len(sl) THEN <<>>
    ELSE LET bytes == disk[mapping[sl[k].path]]
         IN  [x \in 1..sl[k].length |-> bytes[sl[k].offset + x]] \o SourceBytes(sl, k + 1)

\* The digest of the j-th piece is the digest of what the sources hold.
DigestMatches(j) == Sha1(SourceBytes(info.pieces[j].file_slices, 1)) = info.pieces[j].hash

\* Every piece was hashed and every digest matched.
AllPiecesVerified ==
    /\ checked = 1..Len(info.pieces)
    /\ \A j \in 1..Len(info.pieces) : DigestMatches(j)

\* C29: a live AddTorrent (neither dry_run nor skip_add) is issued for a
\* torrent only after every piece of it, not a sample, was hashed against
\* the chosen mapping and every digest matched.
C29_LiveAddOnlyAfterFullMatch == LiveAddIssued => AllPiecesVerified

\* C29 for the torrents each of whose pieces has slices, which is the case
\* whenever the piece length is positive.
LiveAddOnlyAfterFullMatchOfSlicedPieces ==
    (LiveAddIssued /\ info.piece_length > 0) => AllPiecesVerified

\* A torrent of two pieces was added for real after both were hashed.
LiveAddAfterFullCheckReached ==
    /\ LiveAddIssued
    /\ Len(info.pieces) >= 2
    /\ AllPiecesVerified

\* A sample left a changed byte unhashed and cross_seed was entered.
SampleMissedChangeReached ==
    /\ Seeded
    /\ checked # 1..Len(info.pieces)
    /\ \E j \in 1..Len(info.pieces) : ~DigestMatches(j)

\* ------------------------------------------------------------------------
\* ImportArgs::exec: the sources are enumerated once, then process_torrent
\* runs for each .torrent of the argument list (import.rs, lines 49-64).

\* The bytes the source files had when they were enumerated: source 1 has
\* one byte, source 2 has two.
BatchSourceBytes == <<<<0>>, <<0, 0>>>>

\* The info dictionaries of the .torrent files: one file of one byte below
\* the torrent's name, two files, a single file, and a dictionary the
\* decoder refuses (one digest more than the bytes need).
BatchMetas ==
    {SeedMeta(<<<<0>>>>, FALSE, <<<<"f1">>>>, 1),
     SeedMeta(BatchSourceBytes, FALSE, <<<<"f1">>, <<"f2">>>>, 1),
     SeedMeta(<<<<0>>>>, TRUE, <<>>, 1),
     [SeedMeta(<<<<0>>>>, TRUE, <<>>, 1) EXCEPT !.pieces.chunks = Append(@, Sha1(<<>>))]}

\* A .torrent file: its info dictionary and the host of its announce URL.
BatchTorrents == [meta : BatchMetas, announce : {Some("host"), Nothing}]

InitBatch ==
    /\ batch \in UNION {[1..n -> BatchTorrents] : n \in 1..MaxBatch}
    /\ bi = 0
    /\ results = <<>>
    /\ ipc = "next"
    /\ meta = Nothing
    /\ content = <<>>
    /\ \E found \in {{1, 2}, {1}} : entries = enumerate_files_with_sizes(found, BatchSourceBytes)
    /\ \E d1 \in {<<0>>, <<1>>, <<>>} : disk = <<d1, <<0, 0>>>>
    /\ unreadable \in {{}, {1}}
    /\ flags \in [dry_run : BOOLEAN, skip_add : BOOLEAN, pieces_to_test : {1}]
    /\ info = Nothing
    /\ mapping = <<>>
    /\ checked = {}
    /\ failed_paths = {}
    /\ \E p1 \in {<<RootDir, "s", "t", "f1">>, <<RootDir, "s", "u", "f1">>, <<RootDir, "s", "t">>} :
         src_paths = <<p1, <<RootDir, "s", "t", "f2">>>>
    /\ announce = Nothing
    /\ run = 1
    /\ steps = <<>>
    /\ si = 0
    /\ effects = <<>>
    /\ mirror = [dirs |-> {}, links |-> <<>>]
    /\ mirror1 = None
    /\ IdleDecode
    /\ IdleMove
    /\ IdlePure

\* for torrent in self.torrents: process_torrent is called (lines 51-52)
StartTorrent ==
    /\ ipc = "next"
    /\ bi < Len(batch)
    /\ bi' = bi + 1
    /\ meta' = batch[bi + 1].meta
    /\ announce' = batch[bi + 1].announce
    /\ ipc' = "start"
    /\ info' = Nothing
    /\ mapping' = <<>>
    /\ checked' = {}
    /\ failed_paths' = {}
    /\ steps' = <<>>
    /\ si' = 0
    /\ effects' = <<>>
    /\ UNCHANGED <<batch, results, content, entries, disk, unreadable, flags, src_paths,
                   run, mirror, mirror1, dvars, mvars, pvars>>

\* How process_torrent can return: Ok, or one of its errors.
Returned == {"done", "error_decode", "error_no_candidates", "error_hash_check", "error_seed"}

\* An exec that returns the first error of process_torrent.
EndTorrent_ReturnsError ==
    /\ ipc \in Returned
    /\ results' = Append(results, [end |-> ipc, failed |-> failed_paths, effects |-> effects])
    /\ ipc' = IF ipc = "done" THEN "next" ELSE "returned"
    /\ UNCHANGED <<batch, bi, meta, content, entries, disk, unreadable, flags, info, mapping,
                   checked, failed_paths, svars, dvars, mvars, pvars>>

\* process_torrent returns; an Err is printed (lines 52-61) and the loop
\* goes on.  A panic does not return.
EndTorrent ==
    /\ ipc \in Returned
    /\ results' = Append(results, [end |-> ipc, failed |-> failed_paths, effects |-> effects])
    /\ ipc' = "next"
    /\ UNCHANGED <<batch, bi, meta, content, entries, disk, unreadable, flags, info, mapping,
                   checked, failed_paths, svars, dvars, mvars, pvars>>

NextBatch ==
    \/ StartTorrent
    \/ ReadTorrent
    \/ PickCandidates
    \/ SelectPieces
    \/ HashCheck
    \/ CrossSeedEnter
    \/ SeedStep
    \/ EndTorrent

SpecBatch == InitBatch /\ [][NextBatch]_vars

\* ---- what the claims about the batch speak of

\* How the steps from the i-th on can go on the disk `mir`, eff being the
\* operations issued before them.
RECURSIVE RunSteps(_, _, _, _)
RunSteps(st, i, mir, eff) ==
    IF i > Len(st) THEN {[end |-> "done", effects |-> eff]}
    ELSE UNION {LET e == Append(eff, [op |-> st[i].op, a |-> st[i].a, b |-> st[i].b,
                                      res |-> res])
                IN  IF res = "ok" THEN RunSteps(st, i + 1, Applied(st[i], flags, mir), e)
                    ELSE {[end |-> "error_seed", effects |-> e]} :
                res \in Outcomes(st[i], flags, mir)}

\* How the hash check and cross_seed can go for the decoded `inf`, the
\* mapping m and the pieces sel, nothing lying below the symlink directory.
AloneFromCheck(t, inf, m, sel) ==
    IF \E j \in sel : ~check(inf.pieces[j], m, disk, unreadable).ok
    THEN {[end |-> "panic", failed |-> {}, effects |-> <<>>]}
    ELSE LET failed == FailedPaths(inf, sel, m, disk, unreadable)
         IN  IF failed # {}
             THEN {[end |-> "error_hash_check", failed |-> failed, effects |-> <<>>]}
             ELSE UNION {LET plan == IF inf.is_single_file
                                     THEN SingleFileSteps(m, src_paths, flags, t.announce)
                                     ELSE MultiFileSteps(m, src_paths, flags, t.announce, order)
                         IN  IF ~plan.ok
                             THEN {[end |-> "error_seed", failed |-> {}, effects |-> <<>>]}
                             ELSE {[end |-> o.end, failed |-> {}, effects |-> o.effects] :
                                     o \in RunSteps(plan.v, 1, [dirs |-> {}, links |-> <<>>], <<>>)} :
                         order \in Orders(DOMAIN m)}

\* The outcomes the .torrent t can have when it is the only one imported,
\* with the same sources and flags.
AloneOutcomes(t) ==
    LET d == deserialize_info(t.meta)
    IN  IF ~d.ok THEN {[end |-> "error_decode", failed |-> {}, effects |-> <<>>]}
        ELSE IF \E i \in 1..Len(d.info.files) : entries[d.info.files[i].length] = {}
        THEN {[end |-> "error_no_candidates", failed |-> {}, effects |-> <<>>]}
        ELSE UNION {AloneFromCheck(t, d.info, m, sel) :
                      m \in pick_candidates(d.info, entries), sel \in PiecesToCheck(d.info, flags)}

\* The errors of discovery and planning: the metainfo does not decode, a
\* file has no candidate of its size, the hash check fails, the announce URL
\* has no host, a directory or symlink cannot be made.
PlanningError(r) ==
    \/ r.end \in {"error_decode", "error_no_candidates", "error_hash_check"}
    \/ /\ r.end = "error_seed"
       /\ r.effects = <<>> \/ r.effects[Len(r.effects)].op \in {"Mkdirp", "Symlink"}

\* The outcome of the b-th torrent, once it has one.
HasOutcome(b) == b <= Len(results) \/ (b = bi /\ ipc = "panic")

OutcomeOf(b) ==
    IF b <= Len(results) THEN results[b]
    ELSE [end |-> "panic", failed |-> {}, effects |-> <<>>]

\* The a-th torrent failed with an error of discovery or planning.
FailedPlanning(a) == a <= Len(results) /\ PlanningError(results[a])

\* exec has no step left.  (ReadTorrent has one exactly at "start".)
BatchStopped ==
    /\ ipc # "start"
    /\ ~ENABLED (StartTorrent \/ PickCandidates \/ SelectPieces \/ HashCheck
                  \/ CrossSeedEnter \/ SeedStep \/ EndTorrent)

\* The import came to its end, or the process died in a torrent after the
\* a-th.
BatchOver(a) == (ipc = "panic" /\ bi > a) \/ Len(results) = Len(batch)

\* After such a failure of a torrent every later torrent is processed: exec
\* does not stop before.
LaterOnesProcessed ==
    \A a \in 1..Len(results) : (FailedPlanning(a) /\ BatchStopped) => BatchOver(a)

\* ... each with an outcome it can have alone.
LaterOnesAsAlone ==
    \A a \in 1..Len(results) :
        PlanningError(results[a]) =>
            \A b \in (a + 1)..Len(batch) :
                HasOutcome(b) => OutcomeOf(b) \in AloneOutcomes(batch[b])

\* ... each with an outcome it can have alone, or failing on a directory or
\* symlink that lies where it makes its own.
LaterOnesAsAloneUpToDisk ==
    \A a \in 1..Len(results) :
        PlanningError(results[a]) =>
            \A b \in (a + 1)..Len(batch) :
                (HasOutcome(b) /\ OutcomeOf(b) \notin AloneOutcomes(batch[b])) =>
                    /\ OutcomeOf(b).end = "error_seed"
                    /\ OutcomeOf(b).effects[Len(OutcomeOf(b).effects)].res
                         \in {"AlreadyExists", "NotADirectory"}

C21_LeftoverWitness ==
    /\ Len(results) = 2
    /\ PlanningError(results[1])
    /\ results[2] \notin AloneOutcomes(batch[2])

\* ---- C22: an error of check that is not a digest mismatch

\* Some piece selected for the running torrent cannot be checked: a source
\* cannot be opened or is shorter than a slice needs.
CheckErrors == \E j \in checked : ~check(info.pieces[j], mapping, disk, unreadable).ok

\* The hash check of the running torrent has been done.
HashCheckOver == ipc \notin {"next", "start", "decoded", "picked", "selected"}

\* C22: a verification error other than a digest mismatch (a source that
\* cannot be opened, a short read, a slice without a mapping entry) aborts
\* the plan of that torrent with an error, and the remaining torrents of the
\* batch are still processed: exec stops only with all of them processed.
C22_CheckErrorAbortsOnlyThatTorrent ==
    /\ (HashCheckOver /\ CheckErrors) => ipc \in Returned \ {"done"}
    /\ BatchStopped => Len(results) = Len(batch)

\* The first torrent of two could not be checked and the process is dead.
CheckErrorPanicReached == ipc = "panic" /\ CheckErrors /\ bi = 1 /\ Len(batch) = 2

\* ---- C23: an announce URL without a host

\* The b-th torrent of the batch has an announce URL without a host.
Hostless(b) == ~batch[b].announce.some

\* C23: a metainfo whose announce is not a URL with a host fails at decode
\* time: it never reaches candidate selection, verification or AddTorrent,
\* the direct-seed case included.
C23_HostlessFailsAtDecode ==
    /\ (bi > 0 /\ Hostless(bi) /\ bi > Len(results)) => ipc \in {"start", "error_decode"}
    /\ \A b \in 1..Len(results) : Hostless(b) => results[b].end = "error_decode"

\* A torrent without a host was verified and added to the client.
HostlessAddedReached ==
    /\ Len(results) >= 1
    /\ Hostless(1)
    /\ results[1].end = "done"
    /\ ~flags.dry_run
    /\ ~flags.skip_add
    /\ results[1].effects # <<>>

\* ------------------------------------------------------------------------
\* pick_candidates on the map that process_torrent builds for it.  Paths are
\* written as for get_best_candidate.

MaxPickFiles == 2

MaxPickCandidates == 2

\* The keys of the map: (&file.path, file.length).
CandidateKeys(files) == {<<files[i].path, files[i].length>> : i \in 1..Len(files)}

\* process_torrent, lines 110-124: every file with the entry of its length,
\* collected into a HashMap; a length without an entry is the error.
CandidatesOf(files, index) ==
    IF \E i \in 1..Len(files) : index[files[i].length] = <<>>
    THEN Err("unable to find candidate matches")
    ELSE [ok |-> TRUE, v |-> [key \in CandidateKeys(files) |-> index[key[2]]]]

\* The orders in which a HashMap with these keys can be iterated.
IterationOrders(keys) ==
    {o \in [1..Cardinality(keys) -> keys] :
        \A i, j \in 1..Cardinality(keys) : o[i] = o[j] => i = j}

\* Iterator::max_by_key from the k-th key on: of equal maxima the last.
RECURSIVE MaxByLen(_, _, _)
MaxByLen(order, k, best) ==
    IF k > Len(order) THEN best
    ELSE MaxByLen(order, k + 1, IF order[k][2] >= best[2] THEN order[k] ELSE best)

\* lines 359-368: the one candidate of the file of the largest length
largest_file_candidate_path(candidates, order) ==
    IF order = <<>> THEN Nothing
    ELSE LET c == candidates[MaxByLen(order, 2, order[1])]
         IN  IF Len(c) = 1 THEN Some(c[1]) ELSE Nothing

\* collect() into a HashMap: of the pairs of one path the last one stays.
Collected(pairs) ==
    [path \in {pairs[i][1] : i \in DOMAIN pairs} |->
        pairs[CHOOSE i \in DOMAIN pairs :
                 /\ pairs[i][1] = path
                 /\ \A j \in DOMAIN pairs : pairs[j][1] = path => j <= i][2]]

\* pick_candidates, lines 354-376, with the map iterated in `order`.
PickCandidatesIn(candidates, order) ==
    LET prefix == largest_file_candidate_path(candidates, order)
    IN  Collected([i \in 1..Len(order) |->
                     get_best_candidate(order[i][1], candidates[order[i]], prefix).v])

\* ---- the inputs of pick_candidates

\* info.files: paths below the torrent's name, lengths.
PickFiles ==
    UNION {[1..k -> [path : {<<1, 1>>, <<1, 2>>}, length : {1, 2}]] : k \in 1..MaxPickFiles}

\* The files found in the source directories; none lies below another.
PickSources ==
    {<<0, 1, 1, 1>>, <<0, 1, 1, 2, 1>>, <<0, 1, 2, 1>>, <<0, 2, 1, 1>>, <<0, 2, 1, 2>>, <<0, 2, 2>>}

\* enumerate_files_with_sizes: per size the files of that size, each file
\* once and under one size.
PickIndexes ==
    LET vecs == {v \in UNION {[1..k -> PickSources] : k \in 0..MaxPickCandidates} :
                    \A i, j \in 1..Len(v) : v[i] = v[j] => i = j}
    IN  {ix \in [1..2 -> vecs] :
            \A i \in 1..Len(ix[1]), j \in 1..Len(ix[2]) : ix[1][i] # ix[2][j]}

InitPick ==
    /\ fpc = "call"
    /\ call \in [files : PickFiles, index : PickIndexes]
    /\ ret = None
    /\ IdleDecode
    /\ IdleImport
    /\ IdleMove
    /\ IdleSeed
    /\ IdleBatch

\* lines 110-125
CallPick ==
    /\ fpc = "call"
    /\ LET c == CandidatesOf(call.files, call.index)
       IN  IF c.ok
           THEN \E order \in IterationOrders(CandidateKeys(call.files)) :
                    ret' = [ok |-> TRUE, v |-> PickCandidatesIn(c.v, order)]
           ELSE ret' = c
    /\ fpc' = "ret"
    /\ UNCHANGED <<call, dvars, ivars, mvars, svars, bvars>>

NextPick == CallPick

SpecPick == InitPick /\ [][NextPick]_vars

\* ---- what the claims about pick_candidates speak of

Picked == fpc = "ret" /\ ret.ok

\* No two files of the metainfo have the same path.
DistinctPaths(files) ==
    \A i, j \in 1..Len(files) : files[i].path = files[j].path => i = j

\* The files of the largest length.
LargestFiles(files) ==
    {i \in 1..Len(files) : \A j \in 1..Len(files) : files[j].length <= files[i].length}

\* The seed root of the only candidate of the i-th file, if it has one
\* candidate only and that one ends in the file's path.
SeedRootOfOnlyCandidate(files, index, i) ==
    LET c == index[files[i].length]
    IN  IF Len(c) = 1 THEN remove_common_suffix(c[1], files[i].path) ELSE Nothing

\* C24: a preferred prefix is used only when the file of the largest length
\* has exactly one candidate of its size and that candidate's path ends in
\* the file's metainfo path; it is then the candidate's seed root, and
\* otherwise none is used: every file is mapped to the best candidate under
\* that preferred prefix.
C24_PreferredPrefixIsSeedRoot ==
    (Picked /\ DistinctPaths(call.files)) =>
        \E l \in LargestFiles(call.files) :
            \A i \in 1..Len(call.files) :
                ret.v[call.files[i].path] =
                    get_best_candidate(call.files[i].path, call.index[call.files[i].length],
                                       SeedRootOfOnlyCandidate(call.files, call.index, l)).v[2]

\* C25: candidate selection is deterministic: the mapping is the same in
\* whatever order the hash maps are iterated (several files of the largest
\* length included), it has exactly one entry per distinct metainfo path, and
\* two paths mapped to one source are no error.
C25_PickIsDeterministic ==
    Picked =>
        /\ \A order \in IterationOrders(CandidateKeys(call.files)) :
               PickCandidatesIn(CandidatesOf(call.files, call.index).v, order) = ret.v
        /\ DOMAIN ret.v = {call.files[i].path : i \in 1..Len(call.files)}

\* The same for a metainfo whose files have distinct paths.
PickIsDeterministicForDistinctPaths ==
    DistinctPaths(call.files) => C25_PickIsDeterministic

\* Two files of the largest length, two candidates, both mapped to one.
SharedLargestPicked ==
    /\ Picked
    /\ Len(call.files) = 2
    /\ call.files[1].length = call.files[2].length
    /\ call.files[1].path # call.files[2].path
    /\ Len(call.index[call.files[1].length]) = 2
    /\ ret.v[call.files[1].path] = ret.v[call.files[2].path]

\* ------------------------------------------------------------------------
\* create_or_update_symlink (fs/mod.rs, and its copy in update_paths.rs).
\* What the filesystem holds at `link`: nothing, a symlink to a target, a
\* regular file or a directory.

MaxApplications == 2

Absent == [kind |-> "absent", to |-> "-"]

SymlinkTo(target) == [kind |-> "symlink", to |-> target]

LinkTargets == {"file", "new file"}

AtLink ==
    {Absent, [kind |-> "file", to |-> "-"], [kind |-> "dir", to |-> "-"]}
        \cup {SymlinkTo(t) : t \in LinkTargets}

\* What the system calls of one application meet besides what is at `link`:
\* each of them may fail on its own (permissions, a missing parent, I/O).
SyscallFaults == [symlink : BOOLEAN, remove_file : BOOLEAN, symlink_again : BOOLEAN]

\* std::os::unix::fs::symlink(target, link) with `at` at link
symlink(at, target, fault) ==
    IF fault THEN [ok |-> FALSE, err |-> "Other", at |-> at]
    ELSE IF at.kind # "absent" THEN [ok |-> FALSE, err |-> "AlreadyExists", at |-> at]
    ELSE [ok |-> TRUE, err |-> "-", at |-> SymlinkTo(target)]

\* std::fs::remove_file(link)
remove_file(at, fault) ==
    IF fault THEN [ok |-> FALSE, err |-> "Other", at |-> at]
    ELSE IF at.kind = "absent" THEN [ok |-> FALSE, err |-> "NotFound", at |-> at]
    ELSE IF at.kind = "dir" THEN [ok |-> FALSE, err |-> "IsADirectory", at |-> at]
    ELSE [ok |-> TRUE, err |-> "-", at |-> Absent]

\* A create_or_update_symlink that takes an existing link for done.
create_or_update_symlink_KeepsExisting(at, target, faults) ==
    LET first == symlink(at, target, faults.symlink)
    IN  IF ~first.ok /\ first.err = "AlreadyExists"
        THEN [ok |-> TRUE, err |-> "-", at |-> at, failed |-> "-"]
        ELSE [first EXCEPT !.failed = IF first.ok THEN "-" ELSE "symlink"]

\* lines 144-154; `failed` names the call whose error is returned.
create_or_update_symlink(at, target, faults) ==
    LET first == symlink(at, target, faults.symlink)
    IN  IF ~first.ok /\ first.err = "AlreadyExists"
        THEN LET removed == remove_file(at, faults.remove_file)
             IN  IF ~removed.ok
                 THEN [ok |-> FALSE, err |-> removed.err, at |-> removed.at,
                       failed |-> "remove_file"]
                 ELSE LET second == symlink(removed.at, target, faults.symlink_again)
                      IN  [ok |-> second.ok, err |-> second.err, at |-> second.at,
                           failed |-> IF second.ok THEN "-" ELSE "symlink_again"]
        ELSE [ok |-> first.ok, err |-> first.err, at |-> first.at,
              failed |-> IF first.ok THEN "-" ELSE "symlink"]

\* No application yet.
NotApplied == [target |-> "-", ok |-> FALSE, err |-> "-", failed |-> "-"]

\* ret holds what is at link after n applications (before: what was there
\* before the last one), the last application and the one before it.
InitSymlink ==
    /\ fpc = "call"
    /\ call = [target |-> "-", faults |-> [symlink |-> FALSE, remove_file |-> FALSE,
                                            symlink_again |-> FALSE]]
    /\ \E at \in AtLink :
         ret = [at |-> at, before |-> at, n |-> 0, last |-> NotApplied, prev |-> NotApplied]
    /\ IdleDecode
    /\ IdleImport
    /\ IdleMove
    /\ IdleSeed
    /\ IdleBatch

CreateOrUpdateSymlink ==
    /\ fpc = "call"
    /\ ret.n < MaxApplications
    /\ \E target \in LinkTargets, faults \in SyscallFaults :
         LET r == create_or_update_symlink(ret.at, target, faults)
         IN  /\ call' = [target |-> target, faults |-> faults]
             /\ ret' = [at |-> r.at, before |-> ret.at, n |-> ret.n + 1,
                        last |-> [target |-> target, ok |-> r.ok, err |-> r.err,
                                  failed |-> r.failed],
                        prev |-> ret.last]
    /\ UNCHANGED <<fpc, dvars, ivars, mvars, svars, bvars>>

NextSymlink == CreateOrUpdateSymlink

SpecSymlink == InitSymlink /\ [][NextSymlink]_vars

\* ---- what the claim about create_or_update_symlink speaks of

\* C27: after a successful create_or_update_symlink(link, target) link is a
\* symlink to target, whether link was absent or pointed elsewhere; applied
\* again with the same arguments it leaves what one application left; and
\* when link existed, the old link is gone before the new one is made, so a
\* failure of that second creation leaves no link.
C27_CreateOrUpdateSymlink ==
    /\ ret.last.ok => ret.at = SymlinkTo(ret.last.target)
    /\ (ret.last.ok /\ ret.prev.ok /\ ret.prev.target = ret.last.target) => ret.at = ret.before
    /\ ret.last.failed = "symlink_again" => ret.before # Absent /\ ret.at = Absent
    /\ (ret.n > 0 /\ ret.at.kind = "symlink" /\ ret.at # ret.before) =>
           ret.last.ok /\ ret.at.to = ret.last.target

\* A link made by one application was pointed at another target by the next.
C27_Witness ==
    /\ ret.n = 2
    /\ ret.prev.ok
    /\ ret.last.ok
    /\ ret.before = SymlinkTo("file")
    /\ ret.at = SymlinkTo("new file")

\* The second creation failed and the link that was there is gone.
C27_LinkLostWitness ==
    /\ ret.n = 2
    /\ ret.prev.ok
    /\ ret.last.failed = "symlink_again"
    /\ ret.before = SymlinkTo("file")
    /\ ret.at = Absent

\* ------------------------------------------------------------------------
\* The client's view after a move of a directory

\* The move of the directory source into target came to its end.
DirectoryMoved == pc = "done" /\ world.source_kind = "dir" /\ args.source # <<>>

\* Where the move has put the file that was at `path` below source.
MovedPath(path) ==
    args.target \o <<args.source[Len(args.source)]>> \o Drop(path, Len(args.source))

\* The client's path of file f of torrent t is where the file is.
ViewMatchesDisk(t) ==
    /\ t.id \in DOMAIN client_base
    /\ \A f \in t.files : client_base[t.id] \o f = MovedPath(t.base_path \o f)

\* base_path / name of t is above source.
NameAboveSource(t) ==
    /\ Len(t.base_path) + 1 < Len(args.source)
    /\ HasPrefix(args.source, t.base_path \o <<t.name>>)

\* C28: after a successful move of a directory source into target, for every
\* selected torrent and every file f of it, new_base_path / f is
\* target / source.basename / (old base_path / f without the prefix source),
\* a multi-file torrent whose base_path / name is a proper ancestor of source
\* included.
C28_ClientViewMatchesDisk ==
    DirectoryMoved => \A i \in 1..Len(torrents) : ViewMatchesDisk(torrents[i])

\* The same for the torrents whose base_path / name is not above source.
ViewMatchesDiskAtOrBelowName ==
    DirectoryMoved =>
        \A i \in 1..Len(torrents) : ~NameAboveSource(torrents[i]) => ViewMatchesDisk(torrents[i])

\* A torrent named above source was moved.
NameAboveSourceMoved ==
    /\ DirectoryMoved
    /\ \E i \in 1..Len(torrents) : NameAboveSource(torrents[i])

====
